---- MODULE Spec2Model ----
(***************************************************************************)
(* Beta estimation scripts of non-linear-beta, as a state machine.         *)
(*                                                                         *)
(* The state is the pair of price tables ('close' column, keyed by date)   *)
(* a script holds for the stock and for the market, the estimator that ran *)
(* on them, its local arrays (the aligned return vectors that enter        *)
(* np.cov / np.var) and the value it returned.                             *)
(*                                                                         *)
(* Numbers.  Dates are day numbers 1, 2, ...  Prices are positive          *)
(* integers (1, 2 or 4).  A return r is held exactly, as the               *)
(* integer r * ReturnScale (ReturnScale is the least common multiple of    *)
(* the price levels, so every (p[i] - p[i-1]) / p[i-1] is representable).  *)
(* Statistics are exact fractions [kind, n, d] in lowest terms; float      *)
(* rounding is not modelled, float division by zero is (nan / inf).        *)
(***************************************************************************)
EXTENDS Integers, Sequences, FiniteSets, TLC

VARIABLES
    stock_data,     \* stock 'close' column: date -> price
    market_data,    \* market 'close' column: date -> price
    call,           \* the estimator that ran ("none" before any ran)
    frame,          \* local arrays of the estimator that ran
    result,         \* the value the estimator returned
    printed,        \* what the script printed of that value
    provider,       \* the data provider: symbol -> the history it serves
    now,            \* the clock: the day datetime.now() returns
    pc,             \* position of a batch driver in its main()
    all_symbols,    \* the list a batch driver works through
    position,       \* how many entries of the list it has processed
    results,        \* the reports it has collected
    failed_stocks   \* the symbols it has recorded as failed

\* the variables of a script that runs one estimator on two tables
table_vars == <<stock_data, market_data, call, frame, result, printed>>
\* the variables of a batch driver and of the provider it downloads from
batch_vars == <<provider, now, pc, all_symbols, position, results, failed_stocks>>

vars == <<stock_data, market_data, call, frame, result, printed,
          provider, now, pc, all_symbols, position, results, failed_stocks>>

----------------------------------------------------------------------------
(* Bounds of the model                                                     *)

\* lengths tried above each minimum-sample threshold: T, ..., T + LengthSlack
LengthSlack == 1
\* a date missing from the stock table is one of 2..MaxGapDay
MaxGapDay == 3
\* trading days per calendar month
DaysPerMonth == 2
\* days the clock may advance while a batch runs
ClockDays == 2

----------------------------------------------------------------------------
(* Exact arithmetic                                                        *)

Abs(x) == IF x < 0 THEN -x ELSE x

RECURSIVE GCD(_, _)
GCD(a, b) == IF b = 0 THEN a ELSE GCD(b, a % b)

LCM(a, b) == (a * b) \div GCD(a, b)

\* the float n / d, d # 0, in lowest terms with a positive denominator
Frac(n, d) ==
    LET g == GCD(Abs(n), Abs(d))
        s == IF d < 0 THEN -1 ELSE 1
    IN  [kind |-> "num", n |-> s * (n \div g), d |-> s * (d \div g)]

\* Python's None
None == [kind |-> "None", n |-> 0, d |-> 1]
\* float nan (np.nan, 0.0 / 0.0)
NaN == [kind |-> "nan", n |-> 0, d |-> 1]
\* float +inf / -inf (x / 0.0, x # 0)
Inf(sign) == [kind |-> "inf", n |-> sign, d |-> 1]

IsNum(a) == a.kind = "num"

\* numpy float division a / b: no exception, nan and inf instead
FloatDiv(a, b) ==
    IF a.kind = "nan" \/ b.kind = "nan" THEN NaN
    ELSE IF a.kind = "inf" \/ b.kind = "inf" THEN NaN
    ELSE IF b.n = 0 THEN (IF a.n = 0 THEN NaN ELSE Inf(IF a.n < 0 THEN -1 ELSE 1))
    ELSE LET g1 == GCD(Abs(a.n), Abs(b.n))
             g2 == GCD(a.d, b.d)
             h1 == IF g1 = 0 THEN 1 ELSE g1
         IN  Frac((a.n \div h1) * (b.d \div g2), (a.d \div g2) * (b.n \div h1))

\* x == 0 on a float
EqZero(a) == a.kind = "num" /\ a.n = 0
\* x > 0 on a float (False for nan)
GtZero(a) == (a.kind = "num" /\ a.n > 0) \/ (a.kind = "inf" /\ a.n > 0)
\* truth value of a Python object that is None or a float: None and 0.0 are false
Truthy(a) == a.kind # "None" /\ ~EqZero(a)

RECURSIVE SumBetween(_, _, _)
\* s[lo] + ... + s[hi], summed by halves
SumBetween(s, lo, hi) ==
    IF lo > hi THEN 0
    ELSE IF lo = hi THEN s[lo]
    ELSE SumBetween(s, lo, (lo + hi) \div 2) + SumBetween(s, ((lo + hi) \div 2) + 1, hi)

SumTo(s, i) == SumBetween(s, 1, i)
Sum(s) == SumTo(s, Len(s))

Dot(x, y) == Sum([i \in 1..Len(x) |-> x[i] * y[i]])

\* n * sum((x - mean x) * (y - mean y))
NSxy(x, y) == Len(x) * Dot(x, y) - Sum(x) * Sum(y)

\* np.cov(x, y)[0, 1]: sample covariance, denominator n - 1
np_cov(x, y) ==
    IF Len(x) < 2 THEN NaN
    ELSE Frac(NSxy(x, y), Len(x) * (Len(x) - 1))

\* np.var(x): population variance, denominator n (ddof = 0)
np_var(x) ==
    IF Len(x) = 0 THEN NaN
    ELSE Frac(NSxy(x, x), Len(x) * Len(x))

\* stats.linregress(x, y).slope: sum((x-mx)(y-my)) / sum((x-mx)^2)
linregress_slope(x, y) ==
    IF NSxy(x, x) = 0 THEN NaN ELSE Frac(NSxy(x, y), NSxy(x, x))

\* np.corrcoef(x, y)[0, 1] = Sxy / sqrt(Sxx * Syy): irrational in general, so
\* held as its sign and the two exact factors of its square,
\* (Sxy / Sxx) * (Sxy / Syy); nan when a variance is 0
np_corrcoef(x, y) ==
    IF Len(x) < 2 \/ NSxy(x, x) = 0 \/ NSxy(y, y) = 0
    THEN [kind |-> "nan", sign |-> 0, by_x |-> NaN, by_y |-> NaN]
    ELSE [kind |-> "num",
          sign |-> IF NSxy(x, y) > 0 THEN 1 ELSE IF NSxy(x, y) < 0 THEN -1 ELSE 0,
          by_x |-> Frac(NSxy(x, y), NSxy(x, x)),
          by_y |-> Frac(NSxy(x, y), NSxy(y, y))]

\* correlation ** 2, as the product by_x * by_y of two exact factors
Squared(corr) == [kind |-> corr.kind, by_x |-> corr.by_x, by_y |-> corr.by_y]

----------------------------------------------------------------------------
(* Tables keyed by date (pandas Series with a sorted, unique index)       *)

\* minimum sample sizes and minimum subset sizes of the estimators
MIN_POINTS_FIXED == 50
MIN_SUBSET_FIXED == 20
MIN_MONTHS == 24
MIN_SUBSET_MONTHLY == 5
MIN_LEN_SUBSET_MONTHLY == 1
MIN_DAYS_SIMPLE == 100
MIN_SUBSET_SIMPLE == 20
MIN_DAYS_5YEAR == 50
MIN_SUBSET_5YEAR == 10
MIN_POINTS_CORRECTED == 50
MIN_SUBSET_CORRECTED == 20
MIN_POINTS_SP500 == 100
MIN_SUBSET_SP500 == 20
MIN_ROWS_PERIOD == 50
MIN_SUBSET_FINAL == 20
TRADING_DAYS_PER_YEAR == 252
MIN_ROWS_MONTHLY == 100
MIN_ROWS_SIMPLE == 100
MIN_MONTHS_YAHOO_5Y == 24
MAX_MONTHS_YAHOO_5Y == 60
MIN_SUBSET_YAHOO_5Y == 5
MIN_LEN_SUBSET_YAHOO_5Y == 1

\* last day any table of the model holds
MaxDay == MIN_DAYS_SIMPLE + LengthSlack + 1

Days == [i \in 1..MaxDay |-> i]

\* s.index: the dates of s in increasing order
Index(s) == LET In(t) == t \in DOMAIN s IN SelectSeq(Days, In)

\* s.values
Values(s) == LET idx == Index(s) IN [i \in 1..Len(idx) |-> s[idx[i]]]

\* (mutant) the labels ignored: the first len(labels) values by position
Loc_by_position(s, labels) == [i \in 1..Len(labels) |-> Values(s)[i]]

\* s.loc[labels].values
Loc(s, labels) == [i \in 1..Len(labels) |-> s[labels[i]]]

\* a.index.intersection(b.index)
Intersection(a, b) == LET In(t) == t \in DOMAIN a /\ t \in DOMAIN b IN SelectSeq(Days, In)

RECURSIVE Prev(_, _)
\* the date before t in the table's index
Prev(T, t) == IF (t - 1) \in T THEN t - 1 ELSE Prev(T, t - 1)

\* the factor returns are held with: the least common multiple of the prices
\* 1, 2 and 4 the tables hold
ReturnScale == LCM(1, LCM(2, 4))

\* a missing price (NaN) in a table of prices, which are all positive
NaNPrice == 0
\* a value in a price column that is not a number (a string such as 'n/a')
Unparseable == -1

RECURSIVE Padded(_, _)
\* the price pct_change() reads at t: the last valid price at or before t
\* (fill_method = 'pad'); the first entry of a table is a valid price
Padded(close, t) ==
    IF close[t] # NaNPrice THEN close[t] ELSE Padded(close, Prev(DOMAIN close, t))

\* (mutant) the change taken over the price of the date itself
pct_change_over_current(close) ==
    LET idx == Index(close)
        T == DOMAIN close
    IN  IF Len(idx) = 0 THEN << >>
        ELSE [t \in T \ {idx[1]} |->
                (ReturnScale * (Padded(close, t) - Padded(close, Prev(T, t))))
                    \div Padded(close, t)]

\* close.pct_change().dropna(): no entry for the first date
pct_change_dropna(close) ==
    LET idx == Index(close)
        T == DOMAIN close
    IN  IF Len(idx) = 0 THEN << >>
        ELSE [t \in T \ {idx[1]} |->
                (ReturnScale * (Padded(close, t) - Padded(close, Prev(T, t))))
                    \div Padded(close, Prev(T, t))]

\* the calendar month of a day
MonthOf(t) == ((t - 1) \div DaysPerMonth) + 1

\* the last day of month m that the table holds (m holds one)
LastDayIn(T, m) == CHOOSE t \in T : MonthOf(t) = m /\ \A u \in T : MonthOf(u) = m => u <= t

\* data['close'].resample('M').last(): one entry per month from the first to
\* the last month of the table, keyed by the month; NaN for an empty month
resample_last(close) ==
    LET T == DOMAIN close
        months == {MonthOf(t) : t \in T}
        first == CHOOSE m \in months : \A k \in months : m <= k
        last == CHOOSE m \in months : \A k \in months : k <= m
    IN  IF T = {} THEN << >>
        ELSE [m \in first..last |->
                IF m \in months THEN close[LastDayIn(T, m)] ELSE NaNPrice]

\* resample_to_monthly(data): None for an empty table
resample_to_monthly(data) ==
    IF DOMAIN data = {} THEN [kind |-> "None", table |-> << >>]
    ELSE [kind |-> "series", table |-> pct_change_dropna(resample_last(data))]

\* pd.DataFrame({'stock': a, 'market': b}).dropna().index: the rows of the
\* union of the two indexes in which neither column is missing
joined_dropna_index(a, b) ==
    LET union == DOMAIN a \cup DOMAIN b
        Complete(t) == t \in union /\ t \in DOMAIN a /\ t \in DOMAIN b
    IN  SelectSeq(Days, Complete)

\* data.loc[labels, 'close']
Restrict(close, labels) == [t \in {labels[i] : i \in 1..Len(labels)} |-> close[t]]

\* arr[:n]
Truncate(arr, n) == SubSeq(arr, 1, n)

Min(a, b) == IF a < b THEN a ELSE b

\* (mutant) the mask taken as (by >= 0): zero returns counted as positive
Positive_or_zero(arr, by) ==
    LET Keep(i) == by[i] >= 0
        pos == SelectSeq([i \in 1..Len(by) |-> i], Keep)
    IN  [k \in 1..Len(pos) |-> arr[pos[k]]]

\* arr[mask] for mask = (by > 0)
Positive(arr, by) == LET Keep(i) == by[i] > 0
                         pos == SelectSeq([i \in 1..Len(by) |-> i], Keep)
                     IN  [k \in 1..Len(pos) |-> arr[pos[k]]]
\* arr[mask] for mask = (by < 0)
Negative(arr, by) == LET Keep(i) == by[i] < 0
                         pos == SelectSeq([i \in 1..Len(by) |-> i], Keep)
                     IN  [k \in 1..Len(pos) |-> arr[pos[k]]]

----------------------------------------------------------------------------
(* Price tables the data provider may return                               *)

\* the k-th price of a generator: its motif, then its tail repeated
PriceAt(g, k) ==
    IF k <= Len(g.motif) THEN g.motif[k]
    ELSE g.tail[((k - Len(g.motif) - 1) % Len(g.tail)) + 1]

\* the table of days 1..n less the missing ones; a price is held for `hold' days
Bars(g, hold, n, missing) ==
    [t \in (1..n) \ missing |-> PriceAt(g, ((t - 1) \div hold) + 1)]

MarketWave   == [motif |-> << >>, tail |-> <<1, 2, 1, 4>>]
MarketStep   == [motif |-> << >>, tail |-> <<1, 2, 2, 1, 4, 4>>]
MarketFlat   == [motif |-> << >>, tail |-> <<2>>]
MarketFiveUp == [motif |-> <<1, 2, 1, 4, 1, 2, 1, 4, 1, 2>>, tail |-> <<2>>]
\* every rise doubles the price: the returns of the up days are all equal
MarketRamp   == [motif |-> << >>, tail |-> <<1, 2, 1, 2, 4>>]
StockWave    == [motif |-> << >>, tail |-> <<1, 4, 2, 1, 2>>]
StockQuiet   == [motif |-> << >>, tail |-> <<2, 2, 1, 1>>]
StockSame    == [motif |-> << >>, tail |-> <<1, 2, 1, 4>>]

MarketGenerators == {MarketWave, MarketStep, MarketFlat, MarketFiveUp, MarketRamp}
StockGenerators == {StockWave, StockQuiet, StockSame}

\* (days a price is held, number of days): daily tables around the daily
\* thresholds, month-by-month tables around the monthly threshold
Shapes ==
    {<<1, T + k>> : T \in {MIN_POINTS_FIXED, MIN_DAYS_SIMPLE}, k \in 0..LengthSlack}
    \cup {<<DaysPerMonth, DaysPerMonth * (MIN_MONTHS + k)>> : k \in 0..LengthSlack}

\* the dates a stock table lacks: none, one day, or every day of the
\* second month
StockGaps ==
    {{}} \cup {{d} : d \in 2..MaxGapDay} \cup {(DaysPerMonth + 1)..(2 * DaysPerMonth)}
MarketGaps == {{}, {MaxGapDay + 1}}

----------------------------------------------------------------------------
(* The estimators                                                          *)

NoFrame == [common_idx |-> << >>, stock_ts |-> << >>, market_ts |-> << >>,
            stock |-> << >>, market |-> << >>]

\* the local arrays of an estimator: the dates it aligned on, and the two
\* vectors that enter np.cov / np.var with the date each entry belongs to
Frame(common_idx, stock_ts, market_ts, stock, market) ==
    [common_idx |-> common_idx, stock_ts |-> stock_ts, market_ts |-> market_ts,
     stock |-> stock, market |-> market]

NoResult == [kind |-> "None"]

\* (mutant) the subset variance never checked
directional_beta_unguarded(stock_sub, market_sub, min_subset, absent) ==
    IF Len(market_sub) > min_subset
    THEN FloatDiv(np_cov(stock_sub, market_sub), np_var(market_sub))
    ELSE absent

\* (mutant) the subset size never checked
directional_beta_unchecked(stock_sub, market_sub, min_subset, absent) ==
    LET sub_cov == np_cov(stock_sub, market_sub)
        sub_var == np_var(market_sub)
    IN  IF GtZero(sub_var) THEN FloatDiv(sub_cov, sub_var) ELSE absent

\* the directional beta of one subset: computed when the subset has more
\* than min_subset observations and its market variance is positive
directional_beta(stock_sub, market_sub, min_subset, absent) ==
    IF Len(market_sub) > min_subset
    THEN LET sub_cov == np_cov(stock_sub, market_sub)
             sub_var == np_var(market_sub)
         IN  IF GtZero(sub_var) THEN FloatDiv(sub_cov, sub_var) ELSE absent
    ELSE absent

\* positive_beta / negative_beta if positive_beta and negative_beta
\*                                 and negative_beta != 0 else None
beta_ratio_truthy(positive_beta, negative_beta) ==
    IF Truthy(positive_beta) /\ Truthy(negative_beta) /\ ~EqZero(negative_beta)
    THEN FloatDiv(positive_beta, negative_beta)
    ELSE None

calculate_beta_fixed(stock, market) ==
    LET stock_returns == pct_change_dropna(stock)
        market_returns == pct_change_dropna(market)
        common_idx == Intersection(stock_returns, market_returns)
        stock_aligned == Loc(stock_returns, common_idx)
        market_aligned == Loc(market_returns, common_idx)
        covariance == np_cov(stock_aligned, market_aligned)
        market_variance == np_var(market_aligned)
        positive_beta == directional_beta(Positive(stock_aligned, market_aligned),
                             Positive(market_aligned, market_aligned),
                             MIN_SUBSET_FIXED, None)
        negative_beta == directional_beta(Negative(stock_aligned, market_aligned),
                             Negative(market_aligned, market_aligned),
                             MIN_SUBSET_FIXED, None)
    IN  IF Len(common_idx) < MIN_POINTS_FIXED
        THEN [ret |-> NoResult,
              frame |-> Frame(common_idx, << >>, << >>, << >>, << >>)]
        ELSE IF EqZero(market_variance)
        THEN [ret |-> NoResult,
              frame |-> Frame(common_idx, common_idx, common_idx,
                              stock_aligned, market_aligned)]
        ELSE [ret |-> [kind |-> "report",
                       traditional_beta |-> FloatDiv(covariance, market_variance),
                       positive_beta |-> positive_beta,
                       negative_beta |-> negative_beta,
                       beta_ratio |-> beta_ratio_truthy(positive_beta, negative_beta),
                       data_points |-> Len(common_idx),
                       positive_days |-> Len(Positive(market_aligned, market_aligned)),
                       negative_days |-> Len(Negative(market_aligned, market_aligned))],
              frame |-> Frame(common_idx, common_idx, common_idx,
                              stock_aligned, market_aligned)]

\* positive_beta / negative_beta unless one of them is nan or negative_beta
\* is 0, and nan then
beta_ratio_isnan(positive_beta, negative_beta) ==
    IF positive_beta.kind # "nan" /\ negative_beta.kind # "nan" /\ ~EqZero(negative_beta)
    THEN FloatDiv(positive_beta, negative_beta)
    ELSE NaN

calculate_beta_monthly(stock, market) ==
    LET stock_monthly == resample_to_monthly(stock)
        market_monthly == resample_to_monthly(market)
        common_dates == Intersection(stock_monthly.table, market_monthly.table)
        stock_ret == Loc(stock_monthly.table, common_dates)
        market_ret == Loc(market_monthly.table, common_dates)
        covariance == np_cov(stock_ret, market_ret)
        market_variance == np_var(market_ret)
        correlation == np_corrcoef(stock_ret, market_ret)
        stock_pos == Positive(stock_ret, market_ret)
        market_pos == Positive(market_ret, market_ret)
        stock_neg == Negative(stock_ret, market_ret)
        market_neg == Negative(market_ret, market_ret)
        positive_beta ==
            IF Len(stock_pos) > MIN_LEN_SUBSET_MONTHLY
            THEN directional_beta(stock_pos, market_pos, MIN_SUBSET_MONTHLY, None)
            ELSE None
        negative_beta ==
            IF Len(stock_neg) > MIN_LEN_SUBSET_MONTHLY
            THEN directional_beta(stock_neg, market_neg, MIN_SUBSET_MONTHLY, None)
            ELSE None
    IN  IF stock_monthly.kind = "None" \/ market_monthly.kind = "None"
        THEN [ret |-> NoResult, frame |-> NoFrame]
        ELSE IF Len(common_dates) < MIN_MONTHS
        THEN [ret |-> NoResult,
              frame |-> Frame(common_dates, << >>, << >>, << >>, << >>)]
        ELSE IF EqZero(market_variance)
        THEN [ret |-> NoResult,
              frame |-> Frame(common_dates, common_dates, common_dates,
                              stock_ret, market_ret)]
        ELSE [ret |-> [kind |-> "report",
                       beta |-> FloatDiv(covariance, market_variance),
                       correlation |-> correlation,
                       r_squared |-> Squared(correlation),
                       positive_beta |-> positive_beta,
                       negative_beta |-> negative_beta,
                       months |-> Len(stock_ret),
                       positive_months |-> Len(market_pos),
                       negative_months |-> Len(market_neg)],
              frame |-> Frame(common_dates, common_dates, common_dates,
                              stock_ret, market_ret)]

\* calculate_beta_simple of simple_sp500_analysis.py (min_days 100, min_subset
\* 20) and of beta_5year_comparison.py (50 and 10): the same code otherwise
calculate_beta_simple(stock, market, min_days, min_subset) ==
    LET common_dates == Intersection(stock, market)
        stock_aligned == Restrict(stock, common_dates)
        market_aligned == Restrict(market, common_dates)
        stock_returns == pct_change_dropna(stock_aligned)
        market_returns == pct_change_dropna(market_aligned)
        min_len == Min(Len(Index(stock_returns)), Len(Index(market_returns)))
        stock_ret == Truncate(Values(stock_returns), min_len)
        market_ret == Truncate(Values(market_returns), min_len)
        covariance == np_cov(stock_ret, market_ret)
        market_variance == np_var(market_ret)
        the_frame == Frame(common_dates, Truncate(Index(stock_returns), min_len),
                           Truncate(Index(market_returns), min_len),
                           stock_ret, market_ret)
    IN  IF Len(common_dates) < min_days
        THEN [ret |-> NoResult,
              frame |-> Frame(common_dates, << >>, << >>, << >>, << >>)]
        ELSE IF EqZero(market_variance)
        THEN [ret |-> NoResult, frame |-> the_frame]
        ELSE [ret |-> [kind |-> "report",
                       beta |-> FloatDiv(covariance, market_variance),
                       correlation |-> np_corrcoef(stock_ret, market_ret),
                       positive_beta |->
                           directional_beta(Positive(stock_ret, market_ret),
                               Positive(market_ret, market_ret), min_subset, None),
                       negative_beta |->
                           directional_beta(Negative(stock_ret, market_ret),
                               Negative(market_ret, market_ret), min_subset, None),
                       data_points |-> Len(stock_ret),
                       positive_days |-> Len(Positive(market_ret, market_ret)),
                       negative_days |-> Len(Negative(market_ret, market_ret))],
              frame |-> the_frame]

\* calculate_beta_corrected of test_nvidia_beta.py on the two downloaded
\* price columns; the volatilities it also reports are left out
calculate_beta_corrected(stock_prices, market_prices) ==
    LET stock_returns == pct_change_dropna(stock_prices)
        market_returns == pct_change_dropna(market_prices)
        aligned_index == joined_dropna_index(stock_returns, market_returns)
        aligned_stock == Loc(stock_returns, aligned_index)
        aligned_market == Loc(market_returns, aligned_index)
        covariance == np_cov(aligned_stock, aligned_market)
        market_variance == np_var(aligned_market)
        positive_beta == directional_beta(Positive(aligned_stock, aligned_market),
                             Positive(aligned_market, aligned_market),
                             MIN_SUBSET_CORRECTED, None)
        negative_beta == directional_beta(Negative(aligned_stock, aligned_market),
                             Negative(aligned_market, aligned_market),
                             MIN_SUBSET_CORRECTED, None)
        the_frame == Frame(aligned_index, aligned_index, aligned_index,
                           aligned_stock, aligned_market)
    IN  IF DOMAIN stock_prices = {} \/ DOMAIN market_prices = {}
        THEN [ret |-> NoResult, frame |-> NoFrame]
        ELSE IF Len(aligned_index) < MIN_POINTS_CORRECTED
        THEN [ret |-> NoResult, frame |-> the_frame]
        ELSE IF EqZero(market_variance)
        THEN [ret |-> NoResult, frame |-> the_frame]
        ELSE [ret |-> [kind |-> "report",
                       traditional_beta |-> FloatDiv(covariance, market_variance),
                       positive_beta |-> positive_beta,
                       negative_beta |-> negative_beta,
                       beta_ratio |-> beta_ratio_truthy(positive_beta, negative_beta),
                       data_points |-> Len(aligned_index),
                       positive_days |-> Len(Positive(aligned_market, aligned_market)),
                       negative_days |-> Len(Negative(aligned_market, aligned_market)),
                       correlation |-> np_corrcoef(aligned_stock, aligned_market),
                       start_date |-> aligned_index[1],
                       end_date |-> aligned_index[Len(aligned_index)]],
              frame |-> the_frame]

\* calculate_correct_beta of create_corrected_sp500.py on the two downloaded
\* 'Close' columns; returns hold no NaN after dropna(), so the NaN mask keeps
\* every aligned pair
calculate_correct_beta(stock_close, spy_close) ==
    LET stock_returns == pct_change_dropna(stock_close)
        spy_returns == pct_change_dropna(spy_close)
        common_dates == Intersection(stock_returns, spy_returns)
        stock_clean == Loc(stock_returns, common_dates)
        spy_clean == Loc(spy_returns, common_dates)
        covariance == np_cov(stock_clean, spy_clean)
        market_variance == np_var(spy_clean)
        positive_beta == directional_beta(Positive(stock_clean, spy_clean),
                             Positive(spy_clean, spy_clean), MIN_SUBSET_SP500, NaN)
        negative_beta == directional_beta(Negative(stock_clean, spy_clean),
                             Negative(spy_clean, spy_clean), MIN_SUBSET_SP500, NaN)
        the_frame == Frame(common_dates, common_dates, common_dates,
                           stock_clean, spy_clean)
    IN  IF DOMAIN stock_close = {} \/ DOMAIN spy_close = {}
        THEN [ret |-> NoResult, frame |-> NoFrame]
        ELSE IF Len(common_dates) < MIN_POINTS_SP500
        THEN [ret |-> NoResult,
              frame |-> Frame(common_dates, << >>, << >>, << >>, << >>)]
        ELSE IF Len(stock_clean) < MIN_POINTS_SP500 \/ EqZero(market_variance)
        THEN [ret |-> NoResult, frame |-> the_frame]
        ELSE [ret |-> [kind |-> "report",
                       traditional_beta |-> FloatDiv(covariance, market_variance),
                       positive_beta |-> positive_beta,
                       negative_beta |-> negative_beta,
                       beta_ratio |-> beta_ratio_isnan(positive_beta, negative_beta),
                       data_points |-> Len(stock_clean),
                       positive_days |-> Len(Positive(spy_clean, spy_clean)),
                       negative_days |-> Len(Negative(spy_clean, spy_clean))],
              frame |-> the_frame]

\* the positional pairing of nvidia_correct.py (and of method 1 of
\* compare_nvidia_beta.py): both return arrays cut to the shorter length
positional_beta(stock_close, market_close) ==
    LET stock_returns == pct_change_dropna(stock_close)
        market_returns == pct_change_dropna(market_close)
        min_len == Min(Len(Index(stock_returns)), Len(Index(market_returns)))
        nvda_returns == Truncate(Values(stock_returns), min_len)
        spy_returns == Truncate(Values(market_returns), min_len)
        covariance == np_cov(nvda_returns, spy_returns)
        market_variance == np_var(spy_returns)
    IN  [ret |-> [kind |-> "printed",
                  beta |-> FloatDiv(covariance, market_variance),
                  correlation |-> np_corrcoef(nvda_returns, spy_returns),
                  data_points |-> Len(nvda_returns)],
         frame |-> Frame(<< >>, Truncate(Index(stock_returns), min_len),
                         Truncate(Index(market_returns), min_len),
                         nvda_returns, spy_returns)]

\* Series.std() squared: the sample variance, denominator n - 1 (ddof = 1)
series_var(x) == np_cov(x, x)

\* std * np.sqrt(periods) * 100, irrational in general: held as the variance
\* under the root, the number of periods it is multiplied by, and the
\* percent factor
annualised(variance, periods) ==
    [kind |-> "volatility", variance |-> variance, periods |-> periods, percent |-> 100]

\* one period of the loop of analyze_nvidia_beta_periods: a line is printed
\* only for more than 50 rows and more than 50 clean return pairs; it holds
\* the two volatilities np.std(...) * np.sqrt(252) * 100
analyze_nvidia_beta_period(nvda_close, spy_close) ==
    LET paired == positional_beta(nvda_close, spy_close)
    IN  IF Len(Index(nvda_close)) > MIN_ROWS_PERIOD
        THEN IF Len(paired.frame.stock) > MIN_ROWS_PERIOD
             THEN [ret |-> paired.ret @@
                        [nvda_vol |-> annualised(np_var(paired.frame.stock),
                                                 TRADING_DAYS_PER_YEAR),
                         spy_vol |-> annualised(np_var(paired.frame.market),
                                                TRADING_DAYS_PER_YEAR)],
                   frame |-> paired.frame]
             ELSE [ret |-> NoResult, frame |-> paired.frame]
        ELSE [ret |-> NoResult, frame |-> NoFrame]

\* nvidia_beta_explained.py up to its 'MATH CHECK': the two tables cut to
\* their common dates, daily returns paired by position, the beta, the
\* correlation and the two volatilities np.std(...) * np.sqrt(252) * 100;
\* .iloc[0] raises IndexError without a common date. The price performance
\* lines and the rolling betas that follow print further figures and are
\* left out.
nvidia_beta_explained(nvda_close, spy_close) ==
    LET common_dates == Intersection(nvda_close, spy_close)
        nvda_returns == pct_change_dropna(Restrict(nvda_close, common_dates))
        spy_returns == pct_change_dropna(Restrict(spy_close, common_dates))
        min_len == Min(Len(Index(nvda_returns)), Len(Index(spy_returns)))
        nvda_ret_clean == Truncate(Values(nvda_returns), min_len)
        spy_ret_clean == Truncate(Values(spy_returns), min_len)
    IN  IF Len(common_dates) = 0
        THEN [ret |-> [kind |-> "IndexError"], frame |-> NoFrame]
        ELSE [ret |-> [kind |-> "printed",
                       beta |-> FloatDiv(np_cov(nvda_ret_clean, spy_ret_clean),
                                         np_var(spy_ret_clean)),
                       correlation |-> np_corrcoef(nvda_ret_clean, spy_ret_clean),
                       nvda_vol |-> annualised(np_var(nvda_ret_clean),
                                               TRADING_DAYS_PER_YEAR),
                       spy_vol |-> annualised(np_var(spy_ret_clean),
                                              TRADING_DAYS_PER_YEAR),
                       data_points |-> Len(common_dates)],
              frame |-> Frame(common_dates, Truncate(Index(nvda_returns), min_len),
                              Truncate(Index(spy_returns), min_len),
                              nvda_ret_clean, spy_ret_clean)]

\* (mutant) nvidia_beta_final.py with the returns taken from month-end prices
nvidia_beta_final_monthly(nvda_close, spy_close) ==
    LET nvda_ret == pct_change_dropna(resample_last(nvda_close))
        spy_ret == pct_change_dropna(resample_last(spy_close))
        aligned_dates == Intersection(nvda_ret, spy_ret)
        nvda_aligned == Loc(nvda_ret, aligned_dates)
        spy_aligned == Loc(spy_ret, aligned_dates)
    IN  [ret |-> [kind |-> "printed",
                  beta |-> FloatDiv(np_cov(nvda_aligned, spy_aligned), np_var(spy_aligned)),
                  nvda_vol |-> annualised(series_var(nvda_aligned), TRADING_DAYS_PER_YEAR),
                  spy_vol |-> annualised(series_var(spy_aligned), TRADING_DAYS_PER_YEAR)],
         frame |-> Frame(aligned_dates, aligned_dates, aligned_dates,
                         nvda_aligned, spy_aligned)]

\* nvidia_beta_final.py up to its conclusion: daily returns aligned on the
\* common dates, the beta, the two annualised volatilities and the two
\* directional betas; aligned_dates[0] raises IndexError without a common
\* date. The comparison with four other stocks that follows downloads
\* further tables and is left out.
nvidia_beta_final(nvda_close, spy_close) ==
    LET nvda_ret == pct_change_dropna(nvda_close)
        spy_ret == pct_change_dropna(spy_close)
        aligned_dates == Intersection(nvda_ret, spy_ret)
        nvda_aligned == Loc(nvda_ret, aligned_dates)
        spy_aligned == Loc(spy_ret, aligned_dates)
        nvda_up == Positive(nvda_aligned, spy_aligned)
        spy_up == Positive(spy_aligned, spy_aligned)
        nvda_down == Negative(nvda_aligned, spy_aligned)
        spy_down == Negative(spy_aligned, spy_aligned)
        beta_up == IF Len(spy_up) > MIN_SUBSET_FINAL
                   THEN FloatDiv(np_cov(nvda_up, spy_up), np_var(spy_up)) ELSE None
        beta_down == IF Len(spy_down) > MIN_SUBSET_FINAL
                     THEN FloatDiv(np_cov(nvda_down, spy_down), np_var(spy_down)) ELSE None
    IN  IF Len(aligned_dates) = 0
        THEN [ret |-> [kind |-> "IndexError"], frame |-> NoFrame]
        ELSE [ret |-> [kind |-> "printed",
                       beta |-> FloatDiv(np_cov(nvda_aligned, spy_aligned),
                                         np_var(spy_aligned)),
                       correlation |-> np_corrcoef(nvda_aligned, spy_aligned),
                       nvda_vol |-> annualised(series_var(nvda_aligned),
                                               TRADING_DAYS_PER_YEAR),
                       spy_vol |-> annualised(series_var(spy_aligned),
                                              TRADING_DAYS_PER_YEAR),
                       data_points |-> Len(aligned_dates),
                       positive_days |-> Len(spy_up),
                       negative_days |-> Len(spy_down),
                       beta_up |-> beta_up,
                       beta_down |-> beta_down,
                       ratio |-> IF beta_up # None /\ beta_down # None
                                 THEN FloatDiv(beta_up, beta_down) ELSE None],
              frame |-> Frame(aligned_dates, aligned_dates, aligned_dates,
                              nvda_aligned, spy_aligned)]

\* the module-level computation of corrected_beta_analysis.py: aligned on the
\* common dates, every ratio taken without a check of its denominator
corrected_beta_analysis_script(nvda_prices, spy_prices) ==
    LET nvda_returns == pct_change_dropna(nvda_prices)
        spy_returns == pct_change_dropna(spy_prices)
        common_dates == Intersection(nvda_returns, spy_returns)
        nvda_aligned == Loc(nvda_returns, common_dates)
        spy_aligned == Loc(spy_returns, common_dates)
        beta == FloatDiv(np_cov(nvda_aligned, spy_aligned), np_var(spy_aligned))
        nvda_pos == Positive(nvda_aligned, spy_aligned)
        spy_pos == Positive(spy_aligned, spy_aligned)
        nvda_neg == Negative(nvda_aligned, spy_aligned)
        spy_neg == Negative(spy_aligned, spy_aligned)
        beta_pos == FloatDiv(np_cov(nvda_pos, spy_pos), np_var(spy_pos))
        beta_neg == FloatDiv(np_cov(nvda_neg, spy_neg), np_var(spy_neg))
    IN  [ret |-> [kind |-> "printed",
                  beta |-> beta,
                  beta_pos |-> beta_pos,
                  beta_neg |-> beta_neg,
                  beta_ratio |-> FloatDiv(beta_pos, beta_neg),
                  data_points |-> Len(common_dates)],
         frame |-> Frame(common_dates, common_dates, common_dates,
                         nvda_aligned, spy_aligned)]

\* np.diff(prices) / prices[:-1]
np_diff_returns(prices) ==
    [i \in 1..(Len(prices) - 1) |->
        (ReturnScale * (prices[i + 1] - prices[i])) \div prices[i]]

\* final_test.py: returns from the bare price arrays, paired by position;
\* np.cov raises ValueError when the two arrays differ in length
final_test(nvda_close, spy_close) ==
    LET nvda_prices == Values(nvda_close)
        spy_prices == Values(spy_close)
        nvda_ret == np_diff_returns(nvda_prices)
        spy_ret == np_diff_returns(spy_prices)
    IN  IF Len(nvda_ret) # Len(spy_ret)
        THEN [ret |-> [kind |-> "ValueError"], frame |-> NoFrame]
        ELSE [ret |-> [kind |-> "printed",
                       beta |-> FloatDiv(np_cov(nvda_ret, spy_ret), np_var(spy_ret)),
                       data_points |-> Len(nvda_prices)],
              frame |-> Frame(<< >>, SubSeq(Index(nvda_close), 2, Len(nvda_prices)),
                              SubSeq(Index(spy_close), 2, Len(spy_prices)),
                              nvda_ret, spy_ret)]

\* the directional split of the estimators on two aligned return arrays,
\* with the minimum subset size as a parameter
directional_split(stock_aligned, market_aligned, min_subset) ==
    [kind |-> "split",
     min_subset |-> min_subset,
     positive_stock |-> Positive(stock_aligned, market_aligned),
     positive_market |-> Positive(market_aligned, market_aligned),
     negative_stock |-> Negative(stock_aligned, market_aligned),
     negative_market |-> Negative(market_aligned, market_aligned),
     positive_beta |-> directional_beta(Positive(stock_aligned, market_aligned),
                           Positive(market_aligned, market_aligned), min_subset, None),
     negative_beta |-> directional_beta(Negative(stock_aligned, market_aligned),
                           Negative(market_aligned, market_aligned), min_subset, None),
     data_points |-> Len(market_aligned),
     positive_days |-> Len(Positive(market_aligned, market_aligned)),
     negative_days |-> Len(Negative(market_aligned, market_aligned))]

\* asset returns [0.02, -0.01, 0.03, 0.00, 0.015] and benchmark returns
\* [0.01, -0.005, 0.02, 0.00, 0.01], in units of 0.005
ScenarioAsset == <<4, -2, 6, 0, 3>>
ScenarioBenchmark == <<2, -1, 4, 0, 2>>
ScenarioDates == <<1, 2, 3, 4, 5>>
\* the minimum subset sizes of the scenario, and the one of calculate_beta_fixed
ScenarioSubsetSizes == {2, 5, MIN_SUBSET_FIXED}

----------------------------------------------------------------------------
(* What the scripts print of a report                                      *)

RECURSIVE Pow10(_)
Pow10(k) == IF k = 0 THEN 1 ELSE 10 * Pow10(k - 1)

RECURSIVE ScaleDigits(_, _, _, _)
\* long division: the integer part acc and remainder r of a quotient by d,
\* taken k decimal digits further
ScaleDigits(acc, r, d, k) ==
    IF k = 0 THEN <<acc, r>>
    ELSE ScaleDigits(acc * 10 + ((r * 10) \div d), (r * 10) % d, d, k - 1)

\* the text of f"{x:.<digits>f}": x rounded to that many decimals (a tie to
\* the even neighbour), held as the integer the digits spell; 'nan' and
\* 'inf' for those floats; None has no such format (TypeError)
Format(x, digits) ==
    IF x.kind = "None" THEN [kind |-> "TypeError", sign |-> 0, scaled |-> 0, digits |-> digits]
    ELSE IF x.kind = "nan" THEN [kind |-> "nan", sign |-> 0, scaled |-> 0, digits |-> digits]
    ELSE IF x.kind = "inf" THEN [kind |-> "inf", sign |-> x.n, scaled |-> 0, digits |-> digits]
    ELSE LET a == Abs(x.n)
             qr == ScaleDigits(a \div x.d, a % x.d, x.d, digits)
             up == 2 * qr[2] > x.d \/ (2 * qr[2] = x.d /\ qr[1] % 2 = 1)
         IN  [kind |-> "text",
              sign |-> IF x.n < 0 THEN -1 ELSE 1,
              scaled |-> IF up THEN qr[1] + 1 ELSE qr[1],
              digits |-> digits]

\* the text 'N/A'
NA == [kind |-> "N/A", sign |-> 0, scaled |-> 0, digits |-> 0]

NoOutput == [kind |-> "none"]

\* print_results of test_nvidia_beta.py: the counts and the four betas; the
\* correlation and the volatilities it also prints are left out
print_results(the_results) ==
    IF the_results.kind = "None" THEN [kind |-> "No the_results to display"]
    ELSE [kind |-> "report lines",
          data_points |-> the_results.data_points,
          positive_days |-> the_results.positive_days,
          negative_days |-> the_results.negative_days,
          traditional_beta |-> Format(the_results.traditional_beta, 4),
          positive_beta |->
              IF Truthy(the_results.positive_beta) THEN Format(the_results.positive_beta, 4) ELSE NA,
          negative_beta |->
              IF Truthy(the_results.negative_beta) THEN Format(the_results.negative_beta, 4) ELSE NA,
          beta_ratio |->
              IF Truthy(the_results.beta_ratio) THEN Format(the_results.beta_ratio, 4) ELSE NA]

\* the line test_multiple_periods of test_nvidia_beta.py prints for one
\* period: nothing for no results, and the three betas to 3 places and the
\* days otherwise; a cell that cannot be formatted raises
period_summary(the_results) ==
    IF the_results.kind = "None" THEN [kind |-> "no line"]
    ELSE LET beta == Format(the_results.traditional_beta, 3)
             pos == Format(the_results.positive_beta, 3)
             neg == Format(the_results.negative_beta, 3)
         IN  IF "TypeError" \in {beta.kind, pos.kind, neg.kind}
             THEN [kind |-> "TypeError"]
             ELSE [kind |-> "period line", beta |-> beta, pos |-> pos, neg |-> neg,
                   days |-> the_results.data_points]

\* the counts of the 'MARKET REGIME BREAKDOWN' of monthly_beta_10year.py
market_regime_breakdown(market_monthly) ==
    LET total_months == Len(market_monthly)
        positive_months == Len(Positive(market_monthly, market_monthly))
        negative_months == total_months - positive_months
    IN  [kind |-> "regime breakdown",
         total_months |-> total_months,
         positive_months |-> positive_months,
         negative_months |-> negative_months]

\* pd.notna(x): None and nan are missing
notna(x) == x.kind # "None" /\ x.kind # "nan"

\* one line of the results table of monthly_beta_10year.py for the row built
\* from a report: beta, months, bull and bear beta (the R-squared cell is
\* left out)
results_table_row(beta_result) ==
    LET pos_beta == IF notna(beta_result.positive_beta)
                    THEN beta_result.positive_beta ELSE Frac(0, 1)
        neg_beta == IF notna(beta_result.negative_beta)
                    THEN beta_result.negative_beta ELSE Frac(0, 1)
    IN  [kind |-> "table row",
         beta |-> Format(beta_result.beta, 3),
         months |-> beta_result.months,
         pos_beta |-> Format(pos_beta, 3),
         neg_beta |-> Format(neg_beta, 3)]

----------------------------------------------------------------------------
(* The state machine                                                       *)

Init ==
    /\ \E shape \in Shapes, sg \in StockGenerators, mg \in MarketGenerators,
          sgap \in StockGaps, mgap \in MarketGaps :
            /\ stock_data = Bars(sg, shape[1], shape[2], sgap)
            /\ market_data = Bars(mg, shape[1], shape[2], mgap)
    /\ call = "none"
    /\ frame = NoFrame
    /\ result = NoResult
    /\ printed = NoOutput
    /\ provider = << >>
    /\ now = 0
    /\ pc = "script"
    /\ all_symbols = << >>
    /\ position = 0
    /\ results = << >>
    /\ failed_stocks = << >>

Reported == result.kind = "report"

\* one estimator runs on the tables the script holds
Run(name, out) ==
    /\ call = "none"
    /\ call' = name
    /\ frame' = out.frame
    /\ result' = out.ret
    /\ UNCHANGED <<stock_data, market_data, printed>>
    /\ UNCHANGED batch_vars

CalculateBetaFixed ==
    Run("calculate_beta_fixed", calculate_beta_fixed(stock_data, market_data))

CalculateBetaMonthly ==
    Run("calculate_beta_monthly", calculate_beta_monthly(stock_data, market_data))

CalculateBetaSimple ==
    Run("calculate_beta_simple",
        calculate_beta_simple(stock_data, market_data, MIN_DAYS_SIMPLE, MIN_SUBSET_SIMPLE))

CalculateBetaSimple5Year ==
    Run("calculate_beta_simple_5year",
        calculate_beta_simple(stock_data, market_data, MIN_DAYS_5YEAR, MIN_SUBSET_5YEAR))

CalculateBetaCorrected ==
    Run("calculate_beta_corrected", calculate_beta_corrected(stock_data, market_data))

CalculateCorrectBeta ==
    Run("calculate_correct_beta", calculate_correct_beta(stock_data, market_data))

NvidiaCorrect ==
    Run("nvidia_correct", positional_beta(stock_data, market_data))

CompareNvidiaBeta ==
    Run("compare_nvidia_beta", positional_beta(stock_data, market_data))

AnalyzeNvidiaBetaPeriod ==
    Run("analyze_nvidia_beta_periods", analyze_nvidia_beta_period(stock_data, market_data))

NvidiaBetaExplained ==
    Run("nvidia_beta_explained", nvidia_beta_explained(stock_data, market_data))

NvidiaBetaFinal ==
    Run("nvidia_beta_final", nvidia_beta_final(stock_data, market_data))

CorrectedBetaAnalysisScript ==
    Run("corrected_beta_analysis", corrected_beta_analysis_script(stock_data, market_data))

FinalTest ==
    Run("final_test", final_test(stock_data, market_data))

\* the directional split applied to the aligned scenario
DirectionalSplitScenario ==
    \E min_subset \in ScenarioSubsetSizes :
        Run("directional_split",
            [ret |-> directional_split(ScenarioAsset, ScenarioBenchmark, min_subset),
             frame |-> Frame(ScenarioDates, ScenarioDates, ScenarioDates,
                             ScenarioAsset, ScenarioBenchmark)])

\* test_nvidia_beta.py prints what calculate_beta_corrected returned
PrintResults ==
    /\ call = "calculate_beta_corrected"
    /\ printed = NoOutput
    /\ printed' = print_results(result)
    /\ UNCHANGED <<stock_data, market_data, call, frame, result>>
    /\ UNCHANGED batch_vars

\* test_multiple_periods prints the line of a period from what
\* calculate_beta_corrected returned for it
TestMultiplePeriods ==
    /\ call = "calculate_beta_corrected"
    /\ printed = NoOutput
    /\ printed' = period_summary(result)
    /\ UNCHANGED <<stock_data, market_data, call, frame, result>>
    /\ UNCHANGED batch_vars

\* the 'MARKET REGIME BREAKDOWN' main() of monthly_beta_10year.py prints,
\* once it has a result, from the monthly returns of the market
MarketRegimeBreakdown ==
    /\ call = "calculate_beta_monthly"
    /\ Reported
    /\ printed = NoOutput
    /\ printed' = market_regime_breakdown(Values(resample_to_monthly(market_data).table))
    /\ UNCHANGED <<stock_data, market_data, call, frame, result>>
    /\ UNCHANGED batch_vars

\* monthly_beta_10year.py prints the table line of a report of
\* calculate_beta_monthly
ResultsTable10Year ==
    /\ call = "calculate_beta_monthly"
    /\ Reported
    /\ printed = NoOutput
    /\ printed' = results_table_row(result)
    /\ UNCHANGED <<stock_data, market_data, call, frame, result>>
    /\ UNCHANGED batch_vars

Next ==
    \/ CalculateBetaFixed
    \/ NvidiaCorrect
    \/ CompareNvidiaBeta
    \/ AnalyzeNvidiaBetaPeriod
    \/ CorrectedBetaAnalysisScript
    \/ DirectionalSplitScenario
    \/ CalculateBetaMonthly
    \/ CalculateBetaSimple
    \/ CalculateBetaSimple5Year
    \/ CalculateBetaCorrected
    \/ CalculateCorrectBeta
    \/ PrintResults
    \/ TestMultiplePeriods
    \/ MarketRegimeBreakdown
    \/ ResultsTable10Year
    \/ FinalTest
    \/ NvidiaBetaFinal
    \/ NvidiaBetaExplained

Spec == Init /\ [][Next]_vars

----------------------------------------------------------------------------
(* The data provider and getBars                                           *)

\* the columns a daily download of yfinance holds
DownloadColumns == {"Open", "High", "Low", "Close", "Adj Close", "Volume"}

\* what the provider holds for a symbol: the columns it serves and the
\* Close and Adj Close of every day (NaNPrice for a missing value)
ProviderFrame(columns, close) ==
    [kind |-> "frame", columns |-> columns, Close |-> close, AdjClose |-> close]

\* a provider that raises on every request for the symbol
ProviderRaises ==
    [kind |-> "exception", columns |-> {}, Close |-> << >>, AdjClose |-> << >>]

\* the rows of a table with start <= date < end
Slice(table, start, end) ==
    [t \in {u \in DOMAIN table : start <= u /\ u < end} |-> table[t]]

\* yf.download(symbol, start = start, end = end): the rows of the range
yf_download(symbol, start, end) ==
    LET served == provider[symbol]
    IN  IF served.kind = "exception" THEN served
        ELSE [served EXCEPT !.Close = Slice(@, start, end),
                            !.AdjClose = Slice(@, start, end)]

\* rows of a table whose value is not NaN
dropna(table) == [t \in {u \in DOMAIN table : table[u] # NaNPrice} |-> table[t]]

\* pd.to_numeric(column, errors='coerce'): NaN for what is not a number
to_numeric(table) ==
    [t \in DOMAIN table |-> IF table[t] = Unparseable THEN NaNPrice ELSE table[t]]

NoBars == [kind |-> "None", columns |-> {}, close |-> << >>]

\* getBars of non-linear-beta/nonlinear-beta/getBars.py
getBars(symbol, start_date, end_date) ==
    LET df == yf_download(symbol, start_date, end_date)
        close == IF "Adj Close" \in df.columns THEN df.AdjClose ELSE df.Close
        renamed == {IF c = "Open" THEN "open" ELSE IF c = "High" THEN "high"
                    ELSE IF c = "Low" THEN "low" ELSE IF c = "Volume" THEN "volume"
                    ELSE c : c \in df.columns} \cup {"close"}
        available_cols == {"open", "high", "low", "close", "volume"} \cap renamed
    IN  IF df.kind = "exception" THEN NoBars
        ELSE IF df.columns = {} \/ DOMAIN df.Close = {} THEN NoBars
        ELSE IF "Adj Close" \notin df.columns /\ "Close" \notin df.columns THEN NoBars
        ELSE IF DOMAIN dropna(close) = {} THEN NoBars
        ELSE IF \A t \in DOMAIN dropna(close) : to_numeric(dropna(close))[t] = NaNPrice
        THEN NoBars
        ELSE [kind |-> "DataFrame", columns |-> available_cols,
              close |-> to_numeric(dropna(close))]

----------------------------------------------------------------------------
(* generate_sp500_5year_yahoo_csv.py                                       *)

\* timedelta(days = 5 * 365 + 30) in days of the model: a month of the
\* model has DaysPerMonth days, a calendar month 365 / 12
WindowDays5Y == ((5 * 365 + 30) \div (365 \div 12)) * DaysPerMonth

\* the clock when the batch starts, and the last day it may reach
FirstNow == WindowDays5Y + DaysPerMonth + 1
LastNow == FirstNow + ClockDays

\* series.tail(n)
series_tail(arr, n) == SubSeq(arr, Len(arr) - n + 1, Len(arr))

\* stats.linregress(x, y): ValueError when all x are identical; r is 0.0
\* when the variance of y is 0
linregress(x, y) ==
    IF Len(x) > 1 /\ NSxy(x, x) = 0
    THEN [kind |-> "ValueError", slope |-> NaN, r_value |-> np_corrcoef(<< >>, << >>)]
    ELSE [kind |-> "ok",
          slope |-> Frac(NSxy(x, y), NSxy(x, x)),
          r_value |-> IF NSxy(y, y) = 0
                      THEN [kind |-> "num", sign |-> 0,
                            by_x |-> Frac(0, 1), by_y |-> Frac(0, 1)]
                      ELSE np_corrcoef(x, y)]

\* the directional slope of one subset of calculate_yahoo_beta_5y
yahoo_directional(stock_sub, market_sub, min_subset) ==
    IF Len(market_sub) > min_subset /\ Len(stock_sub) > MIN_LEN_SUBSET_YAHOO_5Y
    THEN LET fit == linregress(market_sub, stock_sub)
         IN  IF fit.kind = "ValueError" THEN fit ELSE [kind |-> "ok", slope |-> fit.slope]
    ELSE [kind |-> "ok", slope |-> None]

\* calculate_yahoo_beta_5y(symbol); Standard_Error is left out of the report
calculate_yahoo_beta_5y(symbol, market_symbol) ==
    LET end_date == now
        start_date == end_date - WindowDays5Y
        stock_bars == getBars(symbol, start_date, end_date)
        market_bars == getBars(market_symbol, start_date, end_date)
        stock_returns == pct_change_dropna(resample_last(stock_bars.close))
        market_returns == pct_change_dropna(resample_last(market_bars.close))
        common_dates == Intersection(stock_returns, market_returns)
        kept == IF Len(common_dates) > MAX_MONTHS_YAHOO_5Y
                THEN series_tail(common_dates, MAX_MONTHS_YAHOO_5Y) ELSE common_dates
        stock_ret == Loc(stock_returns, kept)
        market_ret == Loc(market_returns, kept)
        fit == linregress(market_ret, stock_ret)
        pos == yahoo_directional(Positive(stock_ret, market_ret),
                   Positive(market_ret, market_ret), MIN_SUBSET_YAHOO_5Y)
        neg == yahoo_directional(Negative(stock_ret, market_ret),
                   Negative(market_ret, market_ret), MIN_SUBSET_YAHOO_5Y)
        the_frame == Frame(common_dates, kept, kept, stock_ret, market_ret)
    IN  IF stock_bars.kind = "None" \/ market_bars.kind = "None"
        THEN [ret |-> NoResult, frame |-> NoFrame]
        ELSE IF Len(common_dates) < MIN_MONTHS_YAHOO_5Y
        THEN [ret |-> NoResult,
              frame |-> Frame(common_dates, << >>, << >>, << >>, << >>)]
        ELSE IF fit.kind = "ValueError" \/ pos.kind = "ValueError"
                \/ neg.kind = "ValueError"
        THEN [ret |-> NoResult, frame |-> the_frame]
        ELSE [ret |-> [kind |-> "report",
                       Symbol |-> symbol,
                       Beta_5Y_Yahoo |-> fit.slope,
                       Correlation |-> np_corrcoef(stock_ret, market_ret),
                       R_Squared |-> Squared(fit.r_value),
                       Positive_Beta |-> pos.slope,
                       Negative_Beta |-> neg.slope,
                       Months |-> Len(stock_ret),
                       Positive_Months |-> Len(Positive(market_ret, market_ret)),
                       Negative_Months |-> Len(Negative(market_ret, market_ret)),
                       Start_Date |-> kept[1],
                       End_Date |-> kept[Len(kept)]],
              frame |-> the_frame]

\* histories the provider may hold, over the days 1 .. LastNow: a price a
\* day, or a price a month
History(g) == Bars(g, 1, LastNow, {})
MonthlyHistory(g) == Bars(g, DaysPerMonth, LastNow, {})

\* month by month: rises of 300% and 100%, falls of 75% and 50%
IndexCycle == [motif |-> << >>, tail |-> <<1, 4, 1, 2, 4, 2>>]
FundCycle  == [motif |-> << >>, tail |-> <<2, 4, 1, 2, 1, 4>>]
\* a price that never moves
StockPegged == [motif |-> << >>, tail |-> <<1>>]
\* a stock listed `months' months before the clock starts
ListedFor(g, months) ==
    Bars(g, 1, LastNow, 1..(FirstNow - months * DaysPerMonth))

\* the provider: two long histories, a listing old enough for a report, one
\* too recent, a fund whose price never moves, a symbol without data and one
\* the provider raises on
Served(gspc, spy) ==
    [symbol \in {"^GSPC", "SPY", "NVDA", "KO", "PLTR", "COIN", "BIL", "GONE", "ERR"} |->
        CASE symbol = "^GSPC" -> gspc
          [] symbol = "BIL" -> ProviderFrame(DownloadColumns, History(StockPegged))
          [] symbol = "SPY" -> spy
          [] symbol = "NVDA" -> ProviderFrame(DownloadColumns, History(StockWave))
          [] symbol = "KO" -> ProviderFrame(DownloadColumns, History(StockQuiet))
          [] symbol = "PLTR" ->
                ProviderFrame(DownloadColumns, ListedFor(StockWave, MIN_MONTHS_YAHOO_5Y + 2))
          [] symbol = "COIN" ->
                ProviderFrame(DownloadColumns, ListedFor(StockSame, MIN_MONTHS_YAHOO_5Y - 2))
          [] symbol = "GONE" -> ProviderFrame(DownloadColumns, << >>)
          [] symbol = "ERR" -> ProviderRaises]

Providers ==
    {Served(ProviderFrame(DownloadColumns, MonthlyHistory(IndexCycle)),
            ProviderFrame(DownloadColumns, MonthlyHistory(FundCycle))),
     Served(ProviderFrame(DownloadColumns, << >>),
            ProviderFrame(DownloadColumns, MonthlyHistory(FundCycle))),
     Served(ProviderRaises, ProviderFrame(DownloadColumns, << >>))}

\* the lists of symbols a run works through: an entry may repeat, as AMZN
\* and TSLA do in the fallback list of main()
SymbolLists ==
    {<<a, b, c>> : a \in {"NVDA", "PLTR", "GONE"}, b \in {"KO", "COIN", "ERR"},
                   c \in {"NVDA", "KO", "PLTR", "BIL"}}

InitYahoo5Y ==
    /\ stock_data = << >>
    /\ market_data = << >>
    /\ call = "none"
    /\ frame = NoFrame
    /\ result = NoResult
    /\ printed = NoOutput
    /\ provider \in Providers
    /\ now = FirstNow
    /\ pc = "main"
    /\ all_symbols \in SymbolLists
    /\ position = 0
    /\ results = << >>
    /\ failed_stocks = << >>

\* time passes while main() runs
Elapse == \E dt \in 0..1 : now' = IF now + dt > LastNow THEN LastNow ELSE now + dt

\* main() fetches the market data once: ^GSPC, SPY when that fails, and
\* returns when both fail
FetchMarketData5Y ==
    /\ pc = "main"
    /\ \E gspc \in {getBars("^GSPC", now - WindowDays5Y, now)},
          spy \in {getBars("SPY", now - WindowDays5Y, now)} :
            IF gspc.kind # "None"
            THEN market_data' = gspc.close /\ pc' = "loop"
            ELSE IF spy.kind # "None"
            THEN market_data' = spy.close /\ pc' = "loop"
            ELSE market_data' = << >> /\ pc' = "returned"
    /\ Elapse
    /\ UNCHANGED <<stock_data, call, frame, result, printed, provider,
                   all_symbols, position, results, failed_stocks>>

\* one pass of the loop body of main(): the estimator runs for the next
\* entry, the report goes to results or the symbol to failed_stocks
ProcessSymbol5Y ==
    /\ pc = "loop"
    /\ position < Len(all_symbols)
    /\ LET symbol == all_symbols[position + 1]
       IN  \E out \in {calculate_yahoo_beta_5y(symbol, "^GSPC")} :
            /\ call' = "calculate_yahoo_beta_5y"
            /\ result' = out.ret
            /\ frame' = out.frame
            /\ IF out.ret.kind = "report"
               THEN results' = Append(results, out.ret) /\ UNCHANGED failed_stocks
               ELSE failed_stocks' = Append(failed_stocks, symbol) /\ UNCHANGED results
    /\ position' = position + 1
    /\ Elapse
    /\ UNCHANGED <<stock_data, market_data, printed, provider, pc, all_symbols>>

\* the loop is over: main() saves the results and prints the summary
SaveResults5Y ==
    /\ pc = "loop"
    /\ position = Len(all_symbols)
    /\ pc' = "saved"
    /\ UNCHANGED <<stock_data, market_data, call, frame, result, printed, provider,
                   now, all_symbols, position, results, failed_stocks>>

NextYahoo5Y ==
    \/ FetchMarketData5Y
    \/ ProcessSymbol5Y
    \/ SaveResults5Y

SpecYahoo5Y == InitYahoo5Y /\ [][NextYahoo5Y]_vars

----------------------------------------------------------------------------
(* The batches of main() of generate_sp500_5year_yahoo_csv.py              *)

batch_size == 50
MaxBatches == 2

\* (mutant) the number of batches rounded down
total_batches_floor(n) == n \div batch_size

\* total_batches = (len(all_symbols) + batch_size - 1) // batch_size
total_batches_of(n) == (n + batch_size - 1) \div batch_size

\* the symbols of a long list, in turn
BatchCycle == <<"NVDA", "KO", "GONE", "ERR", "PLTR">>
LongList(n) == [k \in 1..n |-> BatchCycle[((k - 1) % Len(BatchCycle)) + 1]]

\* list lengths around the batch boundaries, the empty list included
BatchListLengths ==
    {0, 1} \cup {k * batch_size + d : k \in 1..MaxBatches, d \in {-1, 0, 1}}

\* the local variables of the batch loop
BatchLocals(batch_num, start_idx, end_idx, i) ==
    [batch_num |-> batch_num, start_idx |-> start_idx, end_idx |-> end_idx, i |-> i]

\* the lines main() prints while it loops
BatchHeader(batch_num, total, size) ==
    [line |-> "Processing batch", batch |-> batch_num + 1, of |-> total, symbols |-> size]
SymbolLine(index, total, symbol) ==
    [line |-> "symbol", index |-> index, of |-> total, symbol |-> symbol]
WaitLine == [line |-> "Batch complete. Waiting 2 seconds..."]

InitBatches5Y ==
    /\ stock_data = << >>
    /\ market_data = << >>
    /\ call = "none"
    /\ frame = BatchLocals(0, 0, 0, 0)
    /\ result = NoResult
    /\ printed = << >>
    /\ provider \in Providers
    /\ now \in FirstNow..LastNow
    /\ pc = "main (batches)"
    /\ \E n \in BatchListLengths : all_symbols = LongList(n)
    /\ position = 0
    /\ results = << >>
    /\ failed_stocks = << >>

\* where main() stands: the conditions of its loops
AtMarketData == pc = "main (batches)"
\* range(total_batches) has a next batch_num
BatchToStart ==
    pc = "for batch_num" /\ frame.batch_num < total_batches_of(Len(all_symbols))
\* range(total_batches) is exhausted
BatchesThrough ==
    pc = "for batch_num" /\ frame.batch_num >= total_batches_of(Len(all_symbols))
\* enumerate(batch_symbols) has a next entry
SymbolToProcess == pc = "for symbol" /\ frame.i < frame.end_idx - frame.start_idx
\* enumerate(batch_symbols) is exhausted
BatchThrough == pc = "for symbol" /\ frame.i = frame.end_idx - frame.start_idx

\* main() fetches the market data: ^GSPC, SPY when that fails, and returns
\* when both fail
FetchMarketDataBatches5Y ==
    /\ AtMarketData
    /\ \E gspc \in {getBars("^GSPC", now - WindowDays5Y, now)},
          spy \in {getBars("SPY", now - WindowDays5Y, now)} :
            IF gspc.kind # "None"
            THEN market_data' = gspc.close /\ pc' = "for batch_num"
            ELSE IF spy.kind # "None"
            THEN market_data' = spy.close /\ pc' = "for batch_num"
            ELSE market_data' = << >> /\ pc' = "returned (batches)"
    /\ UNCHANGED <<stock_data, call, frame, result, printed, provider, now,
                   all_symbols, position, results, failed_stocks>>

\* for batch_num in range(total_batches): the slice of the batch is taken
\* and its header printed
StartBatch5Y ==
    /\ BatchToStart
    /\ LET start_idx == frame.batch_num * batch_size
           end_idx == Min(start_idx + batch_size, Len(all_symbols))
       IN  /\ frame' = BatchLocals(frame.batch_num, start_idx, end_idx, 0)
           /\ printed' = Append(printed,
                                BatchHeader(frame.batch_num,
                                            total_batches_of(Len(all_symbols)),
                                            Len(SubSeq(all_symbols, start_idx + 1, end_idx))))
    /\ pc' = "for symbol"
    /\ UNCHANGED <<stock_data, market_data, call, result, provider, now,
                   all_symbols, position, results, failed_stocks>>

\* for i, symbol in enumerate(batch_symbols): the line of the symbol is
\* printed, the estimator runs, the report goes to results or the symbol to
\* failed_stocks
ProcessBatchSymbol5Y ==
    /\ SymbolToProcess
    /\ LET batch_symbols == SubSeq(all_symbols, frame.start_idx + 1, frame.end_idx)
           symbol == batch_symbols[frame.i + 1]
       IN  \E out \in {calculate_yahoo_beta_5y(symbol, "^GSPC")} :
            /\ printed' = Append(printed,
                                 SymbolLine(frame.start_idx + frame.i + 1,
                                            Len(all_symbols), symbol))
            /\ call' = "calculate_yahoo_beta_5y"
            /\ result' = out.ret
            /\ IF out.ret.kind = "report"
               THEN results' = Append(results, out.ret) /\ UNCHANGED failed_stocks
               ELSE failed_stocks' = Append(failed_stocks, symbol) /\ UNCHANGED results
    /\ frame' = [frame EXCEPT !.i = @ + 1]
    /\ position' = position + 1
    /\ UNCHANGED <<stock_data, market_data, provider, now, pc, all_symbols>>

\* the batch is through: main() waits unless it was the last batch
EndBatch5Y ==
    /\ BatchThrough
    /\ printed' = IF frame.batch_num < total_batches_of(Len(all_symbols)) - 1
                  THEN Append(printed, WaitLine)
                  ELSE printed
    /\ frame' = [frame EXCEPT !.batch_num = @ + 1]
    /\ pc' = "for batch_num"
    /\ UNCHANGED <<stock_data, market_data, call, result, provider, now,
                   all_symbols, position, results, failed_stocks>>

\* the batches are through: main() saves the results and prints the summary
SaveResultsBatches5Y ==
    /\ BatchesThrough
    /\ pc' = "saved (batches)"
    /\ UNCHANGED <<stock_data, market_data, call, frame, result, printed, provider,
                   now, all_symbols, position, results, failed_stocks>>

NextBatches5Y ==
    \/ FetchMarketDataBatches5Y
    \/ StartBatch5Y
    \/ ProcessBatchSymbol5Y
    \/ EndBatch5Y
    \/ SaveResultsBatches5Y

SpecBatches5Y == InitBatches5Y /\ [][NextBatches5Y]_vars

----------------------------------------------------------------------------
(* verify_yahoo_betas.py: betas are held in thousandths (1.05 is 1050)      *)

\* the 'reasonable beta range' 0.01 <= beta <= 10.0
MIN_REASONABLE_BETA == 10
MAX_REASONABLE_BETA == 10000
\* the deviations up to which a match is excellent, good, fair
EXCELLENT_DEVIATION == 50
GOOD_DEVIATION == 150
FAIR_DEVIATION == 300
\* deviation_pct when the Yahoo beta is 0
NO_DEVIATION_PCT == 999

NoMatch == [kind |-> "no match"]
Matched(thousandths) == [kind |-> "match", value |-> thousandths]
\* what requests.get and yf.Ticker(symbol).info answer for a symbol: the
\* status, the first match of each of the four patterns in the page text,
\* and the 'beta' entry of the ticker info
Response(status_code, matches, info) ==
    [raises |-> FALSE, status_code |-> status_code, matches |-> matches, info |-> info]
RequestRaises ==
    [raises |-> TRUE, status_code |-> 0, matches |-> << >>, info |-> [kind |-> "missing"]]
InfoBeta(thousandths) == [kind |-> "num", value |-> thousandths]

WebResponses ==
    {Response(200, <<Matched(1000), Matched(1000), NoMatch, NoMatch>>, [kind |-> "missing"]),
     Response(404, << >>, [kind |-> "missing"]),
     Response(200, <<NoMatch, NoMatch, NoMatch, NoMatch>>, InfoBeta(1200)),
     Response(200, <<Matched(0), Matched(0), NoMatch, NoMatch>>, [kind |-> "None"]),
     Response(200, <<NoMatch, NoMatch, NoMatch, NoMatch>>, InfoBeta(-500)),
     Response(200, <<Matched(0), Matched(0), NoMatch, NoMatch>>, InfoBeta(0)),
     Response(200, <<Matched(12500), Matched(12500), Matched(1100), NoMatch>>,
              [kind |-> "missing"]),
     Response(200, <<NoMatch, NoMatch, NoMatch, NoMatch>>, [kind |-> "raises"]),
     RequestRaises}

NoBeta == [kind |-> "None", value |-> 0]
WebBeta(thousandths) == [kind |-> "float", value |-> thousandths]

\* get_yahoo_beta_web: the first pattern whose first match lies in the
\* reasonable range, the beta of the ticker info otherwise, None when the
\* page is not served, nothing is found or anything raises
get_yahoo_beta_web(response) ==
    IF response.raises \/ response.status_code # 200 THEN NoBeta
    ELSE LET InRange(m) == /\ m.kind = "match"
                           /\ MIN_REASONABLE_BETA <= m.value
                           /\ m.value <= MAX_REASONABLE_BETA
             hits == SelectSeq(response.matches, InRange)
         IN  IF hits # << >> THEN WebBeta(hits[1].value)
             ELSE IF response.info.kind = "num" THEN WebBeta(response.info.value)
             ELSE NoBeta

\* the Status of a deviation
status_of(deviation) ==
    IF deviation <= EXCELLENT_DEVIATION THEN "EXCELLENT"
    ELSE IF deviation <= GOOD_DEVIATION THEN "GOOD"
    ELSE IF deviation <= FAIR_DEVIATION THEN "FAIR"
    ELSE "POOR"

\* the entry verify_betas appends to results for one stock
verification(symbol, our_beta, yahoo_beta) ==
    LET deviation == Abs(our_beta - yahoo_beta)
    IN  [Symbol |-> symbol,
         Our_Beta |-> our_beta,
         Yahoo_Beta |-> yahoo_beta,
         Deviation |-> deviation,
         Deviation_Pct |-> IF yahoo_beta # 0
                           THEN [kind |-> "pct", of |-> Frac(deviation * 100, yahoo_beta)]
                           ELSE [kind |-> "pct", of |-> Frac(NO_DEVIATION_PCT, 1)],
         Status |-> status_of(deviation)]

\* (mutant) the good matches counted from the excellent boundary on
quality_counts_overlapping(the_results) ==
    LET Count(Test(_)) == Len(SelectSeq(the_results, Test))
        excellent == Count(LAMBDA r : r.Deviation <= EXCELLENT_DEVIATION)
        good == Count(LAMBDA r : r.Deviation >= EXCELLENT_DEVIATION
                                    /\ r.Deviation <= GOOD_DEVIATION)
        fair == Count(LAMBDA r : r.Deviation > GOOD_DEVIATION
                                    /\ r.Deviation <= FAIR_DEVIATION)
        poor == Count(LAMBDA r : r.Deviation > FAIR_DEVIATION)
    IN  [kind |-> "summary", tested |-> Len(the_results),
         excellent |-> excellent, good |-> good, fair |-> fair, poor |-> poor,
         accuracy_score |-> Frac((excellent + good) * 100, Len(the_results))]

\* the quality distribution and the accuracy score of the summary
quality_counts(the_results) ==
    LET Count(Test(_)) == Len(SelectSeq(the_results, Test))
        excellent == Count(LAMBDA r : r.Deviation <= EXCELLENT_DEVIATION)
        good == Count(LAMBDA r : r.Deviation > EXCELLENT_DEVIATION
                                    /\ r.Deviation <= GOOD_DEVIATION)
        fair == Count(LAMBDA r : r.Deviation > GOOD_DEVIATION
                                    /\ r.Deviation <= FAIR_DEVIATION)
        poor == Count(LAMBDA r : r.Deviation > FAIR_DEVIATION)
    IN  [kind |-> "summary", tested |-> Len(the_results),
         excellent |-> excellent, good |-> good, fair |-> fair, poor |-> poor,
         accuracy_score |-> Frac((excellent + good) * 100, Len(the_results))]

\* the stocks verify_betas tests, and the betas of the csv it loads: the csv
\* lacks one of the stocks
test_stocks == <<"NVDA", "HOOD", "KO", "PLTR">>
OurTables ==
    {[NVDA |-> 1000, KO |-> 1050, PLTR |-> 1300],
     [NVDA |-> 1051, KO |-> 1151, PLTR |-> 1301],
     [NVDA |-> 950, KO |-> 1150, PLTR |-> 700],
     [NVDA |-> 1200, KO |-> 850, PLTR |-> 1500],
     [NVDA |-> 2100, KO |-> 500, PLTR |-> 0]}

InitVerify ==
    /\ stock_data = << >>
    /\ market_data = << >>
    /\ call = "none"
    /\ \E our_df \in OurTables : frame = [our_df |-> our_df]
    /\ result = NoResult
    /\ printed = NoOutput
    /\ provider = << >>
    /\ now = 0
    /\ pc = "verify_betas"
    /\ all_symbols = test_stocks
    /\ position = 0
    /\ results = << >>
    /\ failed_stocks = << >>

\* one pass of the loop of verify_betas: a stock the csv lacks is passed
\* over, and so is one Yahoo has no beta for; the others are appended to
\* results
VerifyStock ==
    /\ pc = "verify_betas"
    /\ position < Len(all_symbols)
    /\ LET symbol == all_symbols[position + 1]
       IN  IF symbol \notin DOMAIN frame.our_df
           THEN UNCHANGED <<call, result, results>>
           ELSE \E response \in WebResponses :
                  \E yahoo_beta \in {get_yahoo_beta_web(response)} :
                    /\ call' = "get_yahoo_beta_web"
                    /\ result' = yahoo_beta
                    /\ IF yahoo_beta.kind = "None"
                       THEN UNCHANGED results
                       ELSE results' = Append(results,
                                verification(symbol, frame.our_df[symbol],
                                             yahoo_beta.value))
    /\ position' = position + 1
    /\ UNCHANGED <<stock_data, market_data, frame, printed, provider, now, pc,
                   all_symbols, failed_stocks>>

\* the loop is over: the summary when there are results
VerificationSummary ==
    /\ pc = "verify_betas"
    /\ position = Len(all_symbols)
    /\ printed' = IF results # << >> THEN quality_counts(results)
                  ELSE [kind |-> "No successful verifications!"]
    /\ pc' = "verified"
    /\ UNCHANGED <<stock_data, market_data, call, frame, result, provider, now,
                   all_symbols, position, results, failed_stocks>>

NextVerify ==
    \/ VerifyStock
    \/ VerificationSummary

SpecVerify == InitVerify /\ [][NextVerify]_vars

----------------------------------------------------------------------------
(* simple_sp500_analysis.py: main()                                        *)

\* the provider: the market fund, two long histories, one of fewer than 100
\* rows, an index served without a Volume column, a symbol with a close
\* value that is not a number, a symbol without data and a symbol whose
\* download raises
ServedSimple(spy) ==
    [symbol \in {"SPY", "NVDA", "KO", "NEWCO", "^VIX", "BRK.B", "GONE", "ERR"} |->
        CASE symbol = "SPY" -> spy
          [] symbol = "BRK.B" ->
                ProviderFrame(DownloadColumns,
                    [Bars(StockQuiet, 1, MaxDay, {}) EXCEPT ![MaxGapDay] = Unparseable])
          [] symbol = "^VIX" ->
                ProviderFrame(DownloadColumns \ {"Volume"}, Bars(StockSame, 1, MaxDay, {}))
          [] symbol = "NVDA" ->
                ProviderFrame(DownloadColumns, Bars(StockWave, 1, MaxDay, {}))
          [] symbol = "KO" ->
                ProviderFrame(DownloadColumns, Bars(StockQuiet, 1, MaxDay, {MaxGapDay}))
          [] symbol = "NEWCO" ->
                ProviderFrame(DownloadColumns,
                              Bars(StockSame, 1, MaxDay, 1..(MaxDay - MIN_ROWS_SIMPLE + 1)))
          [] symbol = "GONE" -> ProviderFrame(DownloadColumns, << >>)
          [] symbol = "ERR" -> ProviderRaises]

\* the market fund served whole, served with as many dates missing as leave
\* 100 rows, and not served
ProvidersSimple ==
    {ServedSimple(ProviderFrame(DownloadColumns, Bars(MarketWave, 1, MaxDay, {}))),
     ServedSimple(ProviderFrame(DownloadColumns,
                      Bars(MarketWave, 1, MaxDay,
                           (MaxGapDay + 2)..(MaxGapDay + 1 + MaxDay - MIN_DAYS_SIMPLE)))),
     ServedSimple(ProviderRaises)}

\* the symbol column of the S&P 500 file main() loads
SymbolListsSimple ==
    {<<a, b, c>> : a \in {"NVDA", "GONE", "NEWCO", "BRK.B"}, b \in {"KO", "ERR", "GONE"},
                   c \in {"NVDA", "KO", "NEWCO", "^VIX"}}

\* (mutant) the loop body with the bare continue of
\* monthly_beta_analysis.main for insufficient data
loop_body_simple_continue(symbol, bars, beta_result) ==
    IF bars.kind = "None" \/ Cardinality(DOMAIN bars.close) < MIN_ROWS_SIMPLE
    THEN [results |-> << >>, failed_stocks |-> << >>]
    ELSE [results |-> << >>, failed_stocks |-> <<symbol>>]

\* the loop body of main() for one symbol, from the stock_data getBars
\* returned and the beta_result of the estimator: what it appends to
\* results and to failed_stocks
loop_body_simple(symbol, bars, beta_result) ==
    IF bars.kind = "None" \/ Cardinality(DOMAIN bars.close) < MIN_ROWS_SIMPLE
    THEN [results |-> << >>, failed_stocks |-> <<symbol>>]
    ELSE IF beta_result = NoResult
    THEN [results |-> << >>, failed_stocks |-> <<symbol>>]
    ELSE [results |->
             <<[Symbol |-> symbol,
                Beta |-> beta_result.beta,
                Correlation |-> beta_result.correlation,
                Positive_Beta |-> beta_result.positive_beta,
                Negative_Beta |-> beta_result.negative_beta,
                Data_Points |-> beta_result.data_points,
                Positive_Days |-> beta_result.positive_days,
                Negative_Days |-> beta_result.negative_days]>>,
          failed_stocks |-> << >>]

InitSimple ==
    /\ stock_data = << >>
    /\ market_data = << >>
    /\ call = "none"
    /\ frame = NoFrame
    /\ result = NoResult
    /\ printed = NoOutput
    /\ provider \in ProvidersSimple
    /\ now = 0
    /\ pc = "main (simple)"
    /\ all_symbols \in SymbolListsSimple
    /\ position = 0
    /\ results = << >>
    /\ failed_stocks = << >>

\* main() fetches the market data once and returns when there is none
FetchMarketDataSimple ==
    /\ pc = "main (simple)"
    /\ LET spy == getBars("SPY", 1, MaxDay + 1)
       IN  IF spy.kind # "None"
           THEN market_data' = spy.close /\ pc' = "loop (simple)"
           ELSE market_data' = << >> /\ pc' = "returned (simple)"
    /\ UNCHANGED <<stock_data, call, frame, result, printed, provider, now,
                   all_symbols, position, results, failed_stocks>>

\* one pass of the loop body of main(): getBars, the estimator on what it
\* returned, and the appends
ProcessSymbolSimple ==
    /\ pc = "loop (simple)"
    /\ position < Len(all_symbols)
    /\ \E stock \in {getBars(all_symbols[position + 1], 1, MaxDay + 1)} :
       \E beta_result \in
              {IF stock.kind = "None" THEN NoResult
               ELSE calculate_beta_simple(stock.close, market_data,
                                          MIN_DAYS_SIMPLE, MIN_SUBSET_SIMPLE).ret} :
          LET out == loop_body_simple(all_symbols[position + 1], stock, beta_result)
          IN  /\ results' = results \o out.results
              /\ failed_stocks' = failed_stocks \o out.failed_stocks
              /\ stock_data' = stock
    /\ position' = position + 1
    /\ UNCHANGED <<market_data, call, frame, result, printed, provider,
                   now, pc, all_symbols>>

\* the loop is over: main() saves the results and prints the summary
SaveResultsSimple ==
    /\ pc = "loop (simple)"
    /\ position = Len(all_symbols)
    /\ pc' = "saved (simple)"
    /\ UNCHANGED <<stock_data, market_data, call, frame, result, printed, provider,
                   now, all_symbols, position, results, failed_stocks>>

NextSimple ==
    \/ FetchMarketDataSimple
    \/ ProcessSymbolSimple
    \/ SaveResultsSimple

\* the two batch scripts, each run from its start
InitBatchLoops == InitYahoo5Y \/ InitSimple

NextBatchLoops == NextYahoo5Y \/ NextSimple

SpecBatchLoops == InitBatchLoops /\ [][NextBatchLoops]_vars

----------------------------------------------------------------------------
(* Vocabulary of the properties                                            *)

\* the estimators that align by index intersection
IntersectionEstimators ==
    {"calculate_beta_fixed", "calculate_correct_beta",
     "calculate_beta_corrected", "calculate_beta_monthly"}

\* the covariance / variance estimators C1 names
CovVarEstimators ==
    {"calculate_beta_fixed", "calculate_correct_beta", "calculate_beta_monthly",
     "calculate_beta_simple", "calculate_beta_simple_5year"}

\* the covariance / variance estimators whose report names its beta 'beta'
BetaKeyEstimators ==
    {"calculate_beta_monthly", "calculate_beta_simple", "calculate_beta_simple_5year"}

\* the covariance / variance estimators whose report names it 'traditional_beta'
TraditionalKeyEstimators ==
    {"calculate_beta_fixed", "calculate_correct_beta", "calculate_beta_corrected"}

\* the traditional beta of a report
ReportedBeta ==
    IF call \in BetaKeyEstimators THEN result.beta ELSE result.traditional_beta

\* the return series the estimator that ran builds from one price table
ReturnSeriesOf(data) ==
    IF call = "calculate_beta_monthly"
    THEN resample_to_monthly(data).table
    ELSE pct_change_dropna(data)

AllEqual(arr) == \A i, j \in 1..Len(arr) : arr[i] = arr[j]

CountWhere(arr, Test(_)) == Cardinality({i \in 1..Len(arr) : Test(arr[i])})

IsPositive(x) == x > 0
IsNegative(x) == x < 0
IsZero(x) == x = 0

----------------------------------------------------------------------------
(* monthly_beta_analysis.py: the estimations of main(), one task a symbol,  *)
(* interleaved                                                             *)

\* (mutant) the monthly prices written over the rows of the argument
after_resample_in_place(data) == resample_last(data)

\* the argument of resample_to_monthly after the call: resample(), last(),
\* pct_change() and dropna() return new objects, data keeps its rows
after_resample_to_monthly(data) == data

\* the symbols of the tasks
TaskSymbols == {"NVDA", "KO", "PLTR", "NEWCO"}

\* the provider: the index and its fallback, three long histories and a
\* listing of fewer than 100 rows
ServedIndex(gspc, spy) ==
    [symbol \in {"^GSPC", "SPY"} \cup TaskSymbols |->
        CASE symbol = "^GSPC" -> gspc
          [] symbol = "SPY" -> spy
          [] symbol = "NVDA" ->
                ProviderFrame(DownloadColumns, Bars(StockWave, 1, MaxDay, {}))
          [] symbol = "KO" ->
                ProviderFrame(DownloadColumns, Bars(StockQuiet, 1, MaxDay, {MaxGapDay}))
          [] symbol = "PLTR" ->
                ProviderFrame(DownloadColumns, Bars(StockSame, 1, MaxDay, {}))
          [] symbol = "NEWCO" ->
                ProviderFrame(DownloadColumns,
                              Bars(StockSame, 1, MaxDay, 1..(MaxDay - MIN_ROWS_MONTHLY + 1)))]

ProvidersIndex ==
    {ServedIndex(ProviderFrame(DownloadColumns, Bars(MarketWave, 1, MaxDay, {})),
                 ProviderFrame(DownloadColumns, Bars(MarketStep, 1, MaxDay, {}))),
     ServedIndex(ProviderFrame(DownloadColumns, << >>),
                 ProviderFrame(DownloadColumns, Bars(MarketStep, 1, MaxDay, {}))),
     ServedIndex(ProviderRaises, ProviderFrame(DownloadColumns, << >>))}

\* the locals of a task: where it is, the rows of its stock_data, the rows
\* the two calls of resample_to_monthly read, and its beta_result
NewTask ==
    [pc |-> "getBars", stock_data |-> << >>, stock_read |-> << >>,
     market_read |-> << >>, beta_result |-> NoResult]

InitMonthlyTasks ==
    /\ stock_data = << >>
    /\ market_data = << >>
    /\ call = "none"
    /\ frame = [symbol \in TaskSymbols |-> NewTask]
    /\ result = NoResult
    /\ printed = NoOutput
    /\ provider \in ProvidersIndex
    /\ now = 0
    /\ pc = "main"
    /\ all_symbols = << >>
    /\ position = 0
    /\ results = << >>
    /\ failed_stocks = << >>

\* main() fetches the market data all tasks share: ^GSPC, SPY when that
\* fails, and returns when both fail
FetchMarketDataMonthly ==
    /\ pc = "main"
    /\ LET gspc == getBars("^GSPC", 1, MaxDay + 1)
           spy == getBars("SPY", 1, MaxDay + 1)
       IN  IF gspc.kind # "None"
           THEN market_data' = gspc.close /\ pc' = "loop"
           ELSE IF spy.kind # "None"
           THEN market_data' = spy.close /\ pc' = "loop"
           ELSE market_data' = << >> /\ pc' = "returned"
    /\ UNCHANGED <<stock_data, call, frame, result, printed, provider, now,
                   all_symbols, position, results, failed_stocks>>

\* a task fetches the rows of its symbol; with none, or fewer than 100, it
\* ends
TaskGetBars(symbol) ==
    /\ pc = "loop"
    /\ frame[symbol].pc = "getBars"
    /\ LET bars == getBars(symbol, 1, MaxDay + 1)
       IN  frame' = [frame EXCEPT ![symbol] =
                IF bars.kind = "None" \/ Cardinality(DOMAIN bars.close) < MIN_ROWS_MONTHLY
                THEN [@ EXCEPT !.pc = "insufficient"]
                ELSE [@ EXCEPT !.pc = "resample stock", !.stock_data = bars.close]]
    /\ UNCHANGED <<stock_data, market_data, call, result, printed, provider, now, pc,
                   all_symbols, position, results, failed_stocks>>

\* calculate_beta_monthly, first call of resample_to_monthly: on stock_data
TaskResampleStock(symbol) ==
    /\ pc = "loop"
    /\ frame[symbol].pc = "resample stock"
    /\ frame' = [frame EXCEPT ![symbol] =
            [@ EXCEPT !.pc = "resample market",
                      !.stock_read = frame[symbol].stock_data,
                      !.stock_data = after_resample_to_monthly(frame[symbol].stock_data)]]
    /\ UNCHANGED <<stock_data, market_data, call, result, printed, provider, now, pc,
                   all_symbols, position, results, failed_stocks>>

\* calculate_beta_monthly, second call of resample_to_monthly: on the
\* market_data all tasks share
TaskResampleMarket(symbol) ==
    /\ pc = "loop"
    /\ frame[symbol].pc = "resample market"
    /\ frame' = [frame EXCEPT ![symbol] =
            [@ EXCEPT !.pc = "estimate", !.market_read = market_data]]
    /\ market_data' = after_resample_to_monthly(market_data)
    /\ UNCHANGED <<stock_data, call, result, printed, provider, now, pc,
                   all_symbols, position, results, failed_stocks>>

\* the rest of calculate_beta_monthly on the two monthly series, and the
\* report appended to results
TaskEstimate(symbol) ==
    /\ pc = "loop"
    /\ frame[symbol].pc = "estimate"
    /\ LET out == calculate_beta_monthly(frame[symbol].stock_read,
                                          frame[symbol].market_read)
       IN  /\ frame' = [frame EXCEPT ![symbol] =
                   [@ EXCEPT !.pc = IF out.ret.kind = "report" THEN "done" ELSE "failed",
                             !.beta_result = out.ret]]
           /\ results' = IF out.ret.kind = "report"
                         THEN Append(results, [Symbol |-> symbol, beta_result |-> out.ret])
                         ELSE results
    /\ UNCHANGED <<stock_data, market_data, call, result, printed, provider, now, pc,
                   all_symbols, position, failed_stocks>>

NextMonthlyTasks ==
    \/ FetchMarketDataMonthly
    \/ \E symbol \in TaskSymbols : TaskGetBars(symbol)
    \/ \E symbol \in TaskSymbols : TaskResampleStock(symbol)
    \/ \E symbol \in TaskSymbols : TaskResampleMarket(symbol)
    \/ \E symbol \in TaskSymbols : TaskEstimate(symbol)

SpecMonthlyTasks == InitMonthlyTasks /\ [][NextMonthlyTasks]_vars

----------------------------------------------------------------------------
(* create_corrected_sp500.py                                               *)

\* a line on the console: its text and the symbol it names
Line(text, symbol) == [text |-> text, symbol |-> symbol]

\* calculate_correct_beta(symbol) from what its two downloads returned: the
\* estimator on their 'Close' columns, and whatever raises caught, printed
\* and turned into None
calculate_correct_beta_of(symbol, stock, spy) ==
    LET raised == [ret |-> NoResult, frame |-> NoFrame,
                   lines |-> <<Line("Error calculating beta for", symbol)>>]
    IN  IF stock.kind = "exception" \/ spy.kind = "exception" THEN raised
        ELSE IF stock.columns = {} \/ spy.columns = {}
        THEN [ret |-> NoResult, frame |-> NoFrame, lines |-> << >>]
        ELSE IF (DOMAIN stock.Close # {} /\ DOMAIN spy.Close # {})
                /\ ("Close" \notin stock.columns \/ "Close" \notin spy.columns)
        THEN raised
        ELSE LET out == calculate_correct_beta(stock.Close, spy.Close)
             IN  [ret |-> out.ret, frame |-> out.frame, lines |-> << >>]

\* the provider of a run: a long history, a recent listing (too short for a
\* beta), a symbol without data, one the provider raises on, and SPY
ServedDaily(spy) ==
    [symbol \in {"SPY", "NVDA", "NEWCO", "GONE", "ERR"} |->
        CASE symbol = "SPY" -> spy
          [] symbol = "NVDA" ->
                ProviderFrame(DownloadColumns, Bars(StockWave, 1, MaxDay, {}))
          [] symbol = "NEWCO" ->
                ProviderFrame(DownloadColumns,
                              Bars(StockQuiet, 1, MaxDay, 1..(MaxDay - MIN_POINTS_SP500 + 1)))
          [] symbol = "GONE" -> ProviderFrame(DownloadColumns, << >>)
          [] symbol = "ERR" -> ProviderRaises]

ProvidersDaily ==
    {ServedDaily(ProviderFrame(DownloadColumns, Bars(MarketWave, 1, MaxDay, {}))),
     ServedDaily(ProviderFrame(DownloadColumns, Bars(MarketStep, 1, MaxDay, {MaxGapDay}))),
     ServedDaily(ProviderFrame(DownloadColumns, << >>))}

SymbolListsDaily ==
    {<<a, b, c>> : a \in {"NVDA", "NEWCO", "GONE"}, b \in {"NEWCO", "GONE", "ERR"},
                   c \in {"NVDA", "GONE", "ERR"}}

InitCorrectedCsv ==
    /\ stock_data = << >>
    /\ market_data = << >>
    /\ call = "none"
    /\ frame = NoFrame
    /\ result = NoResult
    /\ printed = << >>
    /\ provider \in ProvidersDaily
    /\ now = 0
    /\ pc = "main"
    /\ all_symbols \in SymbolListsDaily
    /\ position = 0
    /\ results = << >>
    /\ failed_stocks = << >>

\* create_corrected_sp500_csv() first computes the beta of NVDA and prints it
TestWithNvidia ==
    /\ pc = "main"
    /\ \E stock \in {yf_download("NVDA", 1, MaxDay + 1)},
          spy \in {yf_download("SPY", 1, MaxDay + 1)} :
       \E out \in {calculate_correct_beta_of("NVDA", stock, spy)} :
           /\ call' = "calculate_correct_beta"
           /\ result' = out.ret
           /\ frame' = out.frame
           /\ printed' = printed \o out.lines \o
                  (IF out.ret.kind = "report" THEN <<Line("NVIDIA Beta:", "NVDA")>>
                   ELSE << >>)
    /\ pc' = "loop"
    /\ UNCHANGED <<stock_data, market_data, provider, now, all_symbols, position,
                   results, failed_stocks>>

\* one pass of its loop: the beta of the next symbol goes to results, or
\* 'Failed to calculate beta for' is printed
ProcessSymbolCorrected ==
    /\ pc = "loop"
    /\ position < Len(all_symbols)
    /\ \E symbol \in {all_symbols[position + 1]},
          spy \in {yf_download("SPY", 1, MaxDay + 1)} :
       \E stock \in {yf_download(symbol, 1, MaxDay + 1)} :
       \E out \in {calculate_correct_beta_of(symbol, stock, spy)} :
           /\ call' = "calculate_correct_beta"
           /\ result' = out.ret
           /\ frame' = out.frame
           /\ IF out.ret.kind = "report"
              THEN /\ results' = Append(results,
                          [symbol |-> symbol,
                           traditional_beta |-> out.ret.traditional_beta,
                           positive_beta |-> out.ret.positive_beta,
                           negative_beta |-> out.ret.negative_beta,
                           beta_ratio |-> out.ret.beta_ratio,
                           data_points |-> out.ret.data_points,
                           positive_days |-> out.ret.positive_days,
                           negative_days |-> out.ret.negative_days,
                           sector |-> "Unknown"])
                   /\ printed' = printed \o out.lines
              ELSE /\ results' = results
                   /\ printed' = printed \o out.lines \o
                          <<Line("Failed to calculate beta for", symbol)>>
    /\ position' = position + 1
    /\ UNCHANGED <<stock_data, market_data, provider, now, pc, all_symbols, failed_stocks>>

\* after the loop: the results are sorted by 'traditional_beta' and saved; a
\* frame built from no results has no such column (KeyError)
SaveCorrectedCsv ==
    /\ pc = "loop"
    /\ position = Len(all_symbols)
    /\ pc' = IF results = << >> THEN "KeyError" ELSE "saved"
    /\ UNCHANGED <<stock_data, market_data, call, frame, result, printed, provider,
                   now, all_symbols, position, results, failed_stocks>>

NextCorrectedCsv ==
    \/ TestWithNvidia
    \/ ProcessSymbolCorrected
    \/ SaveCorrectedCsv

SpecCorrectedCsv == InitCorrectedCsv /\ [][NextCorrectedCsv]_vars

----------------------------------------------------------------------------
(* C1 *)

\* C1 (as claimed): whenever a covariance / variance estimator reports a
\* traditional beta for n >= 2 aligned observations with non-zero market
\* variance, that beta equals the least-squares slope of stock on market,
\* sum((m - mean_m)(s - mean_s)) / sum((m - mean_m)^2).
C1_BetaEqualsOLSSlope ==
    (/\ call \in CovVarEstimators
     /\ Reported
     /\ Len(frame.market) >= 2
     /\ ~EqZero(np_var(frame.market)))
    => ReportedBeta = linregress_slope(frame.market, frame.stock)

----------------------------------------------------------------------------
(* C2 *)

\* C2: after an estimator that aligns by index intersection, the aligned
\* dates are exactly the dates present in both return series (as many as the
\* intersection has), the i-th stock return and the i-th market return are
\* the returns of the i-th aligned date, and no date missing from either
\* series appears in the aligned vectors.
C2_AlignmentIsTimestampExact ==
    call \in IntersectionEstimators =>
        LET sr == ReturnSeriesOf(stock_data)
            mr == ReturnSeriesOf(market_data)
            both == DOMAIN sr \cap DOMAIN mr
        IN  /\ Len(frame.common_idx) = Cardinality(both)
            /\ {frame.common_idx[i] : i \in 1..Len(frame.common_idx)} = both
            /\ Len(frame.stock) = Len(frame.market)
            /\ Len(frame.stock) > 0 =>
                /\ Len(frame.stock) = Cardinality(both)
                /\ frame.stock_ts = frame.common_idx
                /\ frame.market_ts = frame.common_idx
                /\ \A i \in 1..Len(frame.stock) :
                      /\ frame.stock[i] = sr[frame.common_idx[i]]
                      /\ frame.market[i] = mr[frame.common_idx[i]]

\* C2 witness: an intersection estimator has reported on two series whose
\* date sets differ, each holding a date the other lacks
C2_Witness ==
    /\ call \in IntersectionEstimators
    /\ Reported
    /\ (DOMAIN ReturnSeriesOf(stock_data)) \ (DOMAIN ReturnSeriesOf(market_data)) # {}
    /\ (DOMAIN ReturnSeriesOf(market_data)) \ (DOMAIN ReturnSeriesOf(stock_data)) # {}
    /\ Len(frame.stock) >= MIN_POINTS_FIXED

----------------------------------------------------------------------------
(* C3 *)

\* C3 (as claimed): in every beta computation, each (stock return, market
\* return) pair that enters the covariance and the variance belongs to one
\* date.
C3_NoPositionalPairing ==
    \A i \in 1..Len(frame.stock) : frame.stock_ts[i] = frame.market_ts[i]

----------------------------------------------------------------------------
(* C4 *)

\* C4 (as claimed): when the market returns that enter the variance are all
\* equal (variance exactly zero), the computation ends in a failure and
\* yields no beta: no number, no nan, no inf.
C4_ZeroVarianceYieldsNoBeta ==
    (Len(frame.market) >= 1 /\ AllEqual(frame.market)) => result.kind = "None"

----------------------------------------------------------------------------
(* C5 *)

\* C5 (as claimed): with threshold T (50 in calculate_beta_fixed, 24 in
\* calculate_beta_monthly), T aligned observations of non-zero market
\* variance yield a report, and T - 1 aligned observations fail with an
\* insufficient-sample error that reports required = T and actual = T - 1.
C5_ThresholdBoundary ==
    \A T \in {MIN_POINTS_FIXED, MIN_MONTHS} :
        ((call = "calculate_beta_fixed" /\ T = MIN_POINTS_FIXED)
            \/ (call = "calculate_beta_monthly" /\ T = MIN_MONTHS)) =>
            /\ (Len(frame.common_idx) = T /\ ~EqZero(np_var(frame.market)))
                  => Reported
            /\ Len(frame.common_idx) = T - 1 =>
                  /\ result.kind = "InsufficientSampleError"
                  /\ result.required = T
                  /\ result.actual = T - 1

----------------------------------------------------------------------------
(* C6 *)

\* C6 (as claimed): whenever calculate_beta_simple returns a report, its
\* data_points (the aligned return pairs that entered the covariance) is at
\* least the configured minimum: 100 in simple_sp500_analysis.py, 50 in
\* beta_5year_comparison.py.
C6_SimpleNeverBelowMinimum ==
    /\ (call = "calculate_beta_simple" /\ Reported)
          => (result.data_points >= MIN_DAYS_SIMPLE
                /\ Len(frame.stock) >= MIN_DAYS_SIMPLE)
    /\ (call = "calculate_beta_simple_5year" /\ Reported)
          => (result.data_points >= MIN_DAYS_5YEAR
                /\ Len(frame.stock) >= MIN_DAYS_5YEAR)

----------------------------------------------------------------------------
(* C7 *)

\* C7 (as claimed): in a report of calculate_beta_monthly, a directional
\* subset of at least 5 months (exactly 5 included) whose market returns
\* have non-zero variance has its directional beta computed: a number.
C7_FiveMonthsSuffice ==
    (call = "calculate_beta_monthly" /\ Reported) =>
        /\ (/\ result.positive_months >= MIN_SUBSET_MONTHLY
            /\ ~AllEqual(Positive(frame.market, frame.market)))
              => IsNum(result.positive_beta)
        /\ (/\ result.negative_months >= MIN_SUBSET_MONTHLY
            /\ ~AllEqual(Negative(frame.market, frame.market)))
              => IsNum(result.negative_beta)

----------------------------------------------------------------------------
(* C8 *)

\* the three counts of a report, whatever its keys
ReportedPoints == IF call = "calculate_beta_monthly" THEN result.months ELSE result.data_points
ReportedPositive ==
    IF call = "calculate_beta_monthly" THEN result.positive_months ELSE result.positive_days
ReportedNegative ==
    IF call = "calculate_beta_monthly" THEN result.negative_months ELSE result.negative_days

\* C8: in every report of a directional split, the positive count is the
\* number of aligned observations with market return > 0, the negative count
\* the number with market return < 0, and together with the observations of
\* market return exactly 0 they add up to data_points: every observation
\* is in exactly one of the three.
C8_SplitIsAPartition ==
    (call \in BetaKeyEstimators \cup TraditionalKeyEstimators /\ Reported) =>
        /\ ReportedPositive = CountWhere(frame.market, IsPositive)
        /\ ReportedNegative = CountWhere(frame.market, IsNegative)
        /\ ReportedPositive + ReportedNegative + CountWhere(frame.market, IsZero)
              = ReportedPoints
        /\ ReportedPoints = Len(frame.market)

\* C8 witness: a report of calculate_beta_fixed on aligned returns that hold
\* positive, negative and zero market returns
C8_Witness ==
    /\ call = "calculate_beta_fixed"
    /\ Reported
    /\ result.positive_days > 0
    /\ result.negative_days > 0
    /\ CountWhere(frame.market, IsZero) > 0

----------------------------------------------------------------------------
(* C9 *)

----------------------------------------------------------------------------
(* C10 *)

\* C10 (as claimed): in every report of calculate_beta_fixed and
\* calculate_beta_corrected, beta_ratio is positive_beta / negative_beta when
\* both directional betas are available and negative_beta is not 0, and is
\* None in every other case.
C10_BetaRatioIffBothAvailable ==
    (call \in {"calculate_beta_fixed", "calculate_beta_corrected"} /\ Reported) =>
        IF /\ result.positive_beta # None
           /\ result.negative_beta # None
           /\ ~EqZero(result.negative_beta)
        THEN result.beta_ratio = FloatDiv(result.positive_beta, result.negative_beta)
        ELSE result.beta_ratio = None

----------------------------------------------------------------------------
(* C11 *)

\* the text of the number 0 at a number of decimals
ZeroText(digits) == [kind |-> "text", sign |-> 1, scaled |-> 0, digits |-> digits]

\* C11 (as claimed): an unavailable directional beta is reported as absent,
\* never as the number 0, and a directional beta computed as exactly 0 is
\* reported as the number 0, never as absent or 'N/A': in the returned
\* report, in the lines print_results prints and in the 10-year results
\* table.
C11_AbsentAndZeroNeverAlike ==
    /\ Reported =>
          \A key \in {"positive_beta", "negative_beta"} :
              ~notna(result[key]) => ~EqZero(result[key])
    /\ (printed.kind = "report lines") =>
          \A key \in {"positive_beta", "negative_beta"} :
              /\ ~notna(result[key]) => printed[key] = NA
              /\ EqZero(result[key]) => printed[key] = ZeroText(4)
    /\ (printed.kind = "table row") =>
          /\ ~notna(result.positive_beta) => printed.pos_beta.kind # "text"
          /\ ~notna(result.negative_beta) => printed.neg_beta.kind # "text"
          /\ EqZero(result.positive_beta) => printed.pos_beta = ZeroText(3)
          /\ EqZero(result.negative_beta) => printed.neg_beta = ZeroText(3)

----------------------------------------------------------------------------
(* C12 *)

\* C12 (as claimed): two calls of an estimator with identical inputs return
\* identical reports.  For calculate_yahoo_beta_5y the inputs are the symbol
\* and what the provider holds; the provider never changes while the batch
\* runs, so any two reports the batch collected for one symbol are equal.
C12_SameInputsSameReport ==
    \A i, j \in 1..Len(results) :
        results[i].Symbol = results[j].Symbol => results[i] = results[j]

----------------------------------------------------------------------------
(* C13 *)

\* the data source failed for a symbol: the provider raises or has no row
SourceFailed(symbol) ==
    provider[symbol].kind = "exception" \/ DOMAIN provider[symbol].Close = {}

\* the source served the symbol and SPY, but fewer than 100 returns
InsufficientHistory(symbol) ==
    /\ ~SourceFailed(symbol)
    /\ ~SourceFailed("SPY")
    /\ Cardinality(DOMAIN provider[symbol].Close) <= MIN_POINTS_SP500

\* what the user sees of a symbol: whether a row of results names it, and
\* the texts printed about it
Outcome(symbol) ==
    [recorded |-> \E i \in 1..Len(results) : results[i].symbol = symbol,
     texts |-> {printed[k].text : k \in {n \in 1..Len(printed) : printed[n].symbol = symbol}}]

\* C13 (as claimed): when create_corrected_sp500_csv has worked through its
\* list, a symbol that failed for insufficient history and a symbol that
\* failed because the data source failed (empty download or exception) have
\* different user-visible outcomes.
C13_CausesStayDistinct ==
    (pc \in {"saved", "KeyError"}) =>
        \A i, j \in 1..Len(all_symbols) :
            (InsufficientHistory(all_symbols[i]) /\ SourceFailed(all_symbols[j]))
                => Outcome(all_symbols[i]) # Outcome(all_symbols[j])

----------------------------------------------------------------------------
(* C14 *)

\* the return of date idx[i] of a table is the change from the price of the
\* date before it, over that price
IsReturnOf(r, data, idx, i) ==
    /\ r * data[idx[i - 1]] = ReturnScale * (data[idx[i]] - data[idx[i - 1]])
    /\ data[idx[i]] = data[idx[i - 1]] => r = 0

\* C14: for each price table a script holds (positive prices, none missing,
\* increasing dates, some dates absent), pct_change().dropna() has one entry
\* less than the table, none for the first date, and at every later date
\* the entry is (price - previous price) / previous price, which is 0 for
\* equal prices; np.diff(p) / p[:-1] gives the same values in the same order.
C14_ReturnsOfPrices ==
    call \in {"final_test", "calculate_beta_fixed"} =>
        \A data \in {stock_data, market_data} :
            LET idx == Index(data)
                returns == pct_change_dropna(data)
                diffs == np_diff_returns(Values(data))
            IN  Len(idx) >= 2 =>
                    /\ Cardinality(DOMAIN returns) = Len(idx) - 1
                    /\ idx[1] \notin DOMAIN returns
                    /\ Len(diffs) = Len(idx) - 1
                    /\ \A i \in 2..Len(idx) :
                          /\ idx[i] \in DOMAIN returns
                          /\ IsReturnOf(returns[idx[i]], data, idx, i)
                          /\ IsReturnOf(diffs[i - 1], data, idx, i)

\* C14 witness: final_test.py computed its beta from the returns of a stock
\* table that lacks a date and holds equal consecutive prices
C14_Witness ==
    /\ call = "final_test"
    /\ result.kind = "printed"
    /\ frame.stock = Values(pct_change_dropna(stock_data))
    /\ \E i \in 1..Len(frame.stock) : frame.stock[i] = 0
    /\ \E i \in 2..Len(Index(stock_data)) :
          Index(stock_data)[i] # Index(stock_data)[i - 1] + 1

----------------------------------------------------------------------------
(* C15 *)

\* the months between the first and the last month of a table in which the
\* table has no price
EmptyMonths(data) ==
    {m \in 1..MonthOf(MaxDay) :
        /\ \A t \in DOMAIN data : MonthOf(t) # m
        /\ \E t \in DOMAIN data : MonthOf(t) < m
        /\ \E t \in DOMAIN data : MonthOf(t) > m}

\* C15 (as claimed): under end-of-month sampling a month without a price
\* has no entry in the monthly return series of its table (no price is
\* carried into it, no zero return stands for it), and it is not among the
\* aligned months.
C15_EmptyMonthHasNoEntry ==
    call = "calculate_beta_monthly" =>
        \A data \in {stock_data, market_data} :
            \A m \in EmptyMonths(data) :
                /\ m \notin DOMAIN resample_to_monthly(data).table
                /\ \A i \in 1..Len(frame.common_idx) : frame.common_idx[i] # m

----------------------------------------------------------------------------
(* C16 *)

\* the market rows main() fetched: those of ^GSPC, or of SPY
FetchedMarket ==
    IF getBars("^GSPC", 1, MaxDay + 1).kind # "None"
    THEN getBars("^GSPC", 1, MaxDay + 1).close
    ELSE getBars("SPY", 1, MaxDay + 1).close

\* the report of a symbol estimated alone on what the provider serves
ReportAlone(symbol) ==
    calculate_beta_monthly(getBars(symbol, 1, MaxDay + 1).close, FetchedMarket).ret

\* C16: however the estimations of the symbols are interleaved, the market
\* data they share keeps the rows main() fetched, the stock data of a task
\* keeps its rows, and the beta_result of every task that ran the
\* estimator, as every report in results, is the report of its symbol
\* estimated alone.
C16_InterleavingKeepsReports ==
    pc = "loop" =>
        /\ market_data = FetchedMarket
        /\ \A symbol \in TaskSymbols :
              /\ frame[symbol].pc \in {"resample stock", "resample market", "estimate",
                                       "done", "failed"}
                    => frame[symbol].stock_data = getBars(symbol, 1, MaxDay + 1).close
              /\ frame[symbol].pc \in {"done", "failed"}
                    => frame[symbol].beta_result = ReportAlone(symbol)
        /\ \A i \in 1..Len(results) :
              results[i].beta_result = ReportAlone(results[i].Symbol)

\* C16 witness: two estimations sharing the market data have reported, the
\* one started from the later list entry first, while a third task is
\* between its two calls of resample_to_monthly
C16_Witness ==
    /\ pc = "loop"
    /\ Len(results) = 2
    /\ results[1].Symbol = "KO"
    /\ results[2].Symbol = "NVDA"
    /\ results[1].beta_result # results[2].beta_result
    /\ frame["PLTR"].pc = "resample market"

----------------------------------------------------------------------------
(* C17 *)

\* how often a symbol is recorded in results and in failed_stocks
TimesRecorded(symbol) ==
    Cardinality({i \in 1..Len(results) : results[i].Symbol = symbol})
    + Cardinality({i \in 1..Len(failed_stocks) : failed_stocks[i] = symbol})

\* how often a symbol is among the list entries processed so far
TimesProcessed(symbol) ==
    Cardinality({i \in 1..position : all_symbols[i] = symbol})

\* C17: in the loops of simple_sp500_analysis.main and
\* generate_sp500_5year_yahoo_csv.main every list entry processed so far is
\* recorded exactly once, in results or in failed_stocks, whatever happened
\* to the entries before it, and the loop ends only when every entry has been
\* processed: then len(results) + len(failed_stocks) is the number of
\* list entries.
C17_EveryEntryRecordedOnce ==
    /\ pc \in {"loop", "saved", "loop (simple)", "saved (simple)"} =>
          /\ Len(results) + Len(failed_stocks) = position
          /\ \A i \in 1..Len(all_symbols) :
                TimesRecorded(all_symbols[i]) = TimesProcessed(all_symbols[i])
    /\ pc \in {"saved", "saved (simple)"} =>
          /\ position = Len(all_symbols)
          /\ Len(results) + Len(failed_stocks) = Len(all_symbols)

\* C17 witness: the loop of simple_sp500_analysis.main has ended after a
\* symbol without data and a symbol the estimator returned None for, and
\* the entry after them is in results
C17_Witness ==
    /\ pc = "saved (simple)"
    /\ all_symbols = <<"GONE", "KO", "NVDA">>
    /\ failed_stocks = <<"GONE", "KO">>
    /\ Len(results) = 1
    /\ results[1].Symbol = "NVDA"

----------------------------------------------------------------------------
(* C18 *)

\* the columns the callers of getBars expect
ExpectedColumns == {"open", "high", "low", "close", "volume"}

\* C18: what getBars returned to the loop of simple_sp500_analysis.main is
\* None or a DataFrame with the five columns open, high, low, close and
\* volume, whatever columns the download held.
C18_FiveColumnsOrNone ==
    (pc \in {"loop (simple)", "saved (simple)"} /\ position > 0) =>
        \/ stock_data.kind = "None"
        \/ stock_data.columns = ExpectedColumns

----------------------------------------------------------------------------
(* C19 *)

\* the annualised volatilities a result carries
VolatilityKeys == {"nvda_vol", "spy_vol"} \cap DOMAIN result

\* r is the return of date t of a daily table: the change from the price of
\* the row before t, over that price
IsDayToDayReturn(r, data, t) ==
    /\ t \in DOMAIN data
    /\ \E u \in DOMAIN data :
          /\ u < t
          /\ \A v \in DOMAIN data : v < t => v <= u
          /\ r * data[u] = ReturnScale * (data[t] - data[u])

\* the returns are those of the month-end prices of a daily table
AreMonthlyReturns(returns, data) ==
    LET monthly == Values(pct_change_dropna(resample_last(data)))
    IN  Len(returns) <= Len(monthly) /\ returns = SubSeq(monthly, 1, Len(returns))

\* C19: every annualised volatility in a result is the standard deviation of
\* the returns the script holds; where its factor is sqrt(252) these are the
\* day-to-day returns of the downloaded daily table, and no volatility of
\* month-end returns carries a factor other than sqrt(12).
C19_AnnualisationMatchesSampling ==
    (result.kind = "printed" /\ call \in {"analyze_nvidia_beta_periods", "nvidia_beta_final"}) =>
        /\ VolatilityKeys = {"nvda_vol", "spy_vol"}
        /\ \A key \in VolatilityKeys :
              LET data == IF key = "nvda_vol" THEN stock_data ELSE market_data
                  returns == IF key = "nvda_vol" THEN frame.stock ELSE frame.market
                  ts == IF key = "nvda_vol" THEN frame.stock_ts ELSE frame.market_ts
              IN  /\ result[key].variance \in {np_var(returns), series_var(returns)}
                  /\ result[key].periods = TRADING_DAYS_PER_YEAR =>
                        \A i \in 1..Len(returns) :
                            IsDayToDayReturn(returns[i], data, ts[i])
                  /\ (Len(returns) >= 2 /\ AreMonthlyReturns(returns, data)) =>
                        result[key].periods = 12

\* C19 witness: nvidia_beta_final.py printed two volatilities with the
\* factor sqrt(252), that of the stock from a table that lacks a date and
\* has a positive variance
C19_Witness ==
    /\ call = "nvidia_beta_final"
    /\ result.kind = "printed"
    /\ result.nvda_vol.periods = TRADING_DAYS_PER_YEAR
    /\ result.spy_vol.periods = TRADING_DAYS_PER_YEAR
    /\ GtZero(result.nvda_vol.variance)
    /\ result.nvda_vol.variance = series_var(frame.stock)
    /\ \E i \in 2..Len(Index(stock_data)) :
          Index(stock_data)[i] # Index(stock_data)[i - 1] + 1

----------------------------------------------------------------------------
(* C20 *)

\* the product of two floats that are numbers
Times(a, b) ==
    LET g1 == GCD(Abs(a.n), b.d)
        g2 == GCD(Abs(b.n), a.d)
    IN  Frac((a.n \div g1) * (b.n \div g2), (a.d \div g2) * (b.d \div g1))

\* a reported R-squared is the square of a reported correlation: both nan,
\* or both numbers of the same value
IsSquareOf(r_squared, correlation) ==
    /\ r_squared.kind = correlation.kind
    /\ r_squared.kind = "num" =>
          Times(r_squared.by_x, r_squared.by_y) = Times(correlation.by_x, correlation.by_y)

\* C20: in every report of calculate_yahoo_beta_5y that main() collected,
\* 'R_Squared' is the square of 'Correlation'.
C20_RSquaredIsCorrelationSquared ==
    \A i \in 1..Len(results) :
        results[i].kind = "report" =>
            IsSquareOf(results[i].R_Squared, results[i].Correlation)

----------------------------------------------------------------------------
(* C21 *)

\* the provider serves nothing for ^GSPC
IndexUnavailable ==
    \/ provider["^GSPC"].kind = "exception"
    \/ DOMAIN provider["^GSPC"].Close = {}

\* whatever the clock shows, the window holds at least 24 monthly returns of
\* the symbol
HasSufficientHistory(symbol) ==
    /\ provider[symbol].kind = "frame"
    /\ \A t \in FirstNow..LastNow :
          Cardinality(DOMAIN pct_change_dropna(resample_last(
              Slice(provider[symbol].Close, t - WindowDays5Y, t))))
            >= MIN_MONTHS_YAHOO_5Y

\* C21: when main() of generate_sp500_5year_yahoo_csv.py went on with the
\* SPY fallback because ^GSPC was unavailable, every processed symbol with
\* sufficient data has a report in results.
C21_FallbackGivesResults ==
    (pc \in {"loop", "saved"} /\ IndexUnavailable) =>
        \A i \in 1..position :
            HasSufficientHistory(all_symbols[i]) =>
                \E j \in 1..Len(results) : results[j].Symbol = all_symbols[i]

----------------------------------------------------------------------------
(* C22 *)

\* C22: every report of calculate_yahoo_beta_5y is computed from 60 months:
\* its 'Months' is 60, and the two windows the estimator has just used are
\* the 60 most recent common months, each stock return on the month of the
\* market return paired with it.
C22_SixtyMonthsPerReport ==
    /\ \A i \in 1..Len(results) : results[i].Months = MAX_MONTHS_YAHOO_5Y
    /\ (call = "calculate_yahoo_beta_5y" /\ result.kind = "report") =>
          /\ Len(frame.stock) = MAX_MONTHS_YAHOO_5Y
          /\ Len(frame.market) = MAX_MONTHS_YAHOO_5Y
          /\ frame.stock_ts = frame.market_ts
          /\ frame.stock_ts = series_tail(frame.common_idx, MAX_MONTHS_YAHOO_5Y)

----------------------------------------------------------------------------
(* C23 *)

\* the sign of a float that is a number
SignOf(a) == IF a.n > 0 THEN 1 ELSE IF a.n < 0 THEN -1 ELSE 0

\* (correlation * (vol_a / vol_b)) squared, for two volatilities with the
\* same factors: r^2 = by_x * by_y, and (vol_a / vol_b)^2 is the ratio of the
\* two variances
CorrelationTimesRatioSquared(correlation, vol_a, vol_b) ==
    Times(Times(correlation.by_x, FloatDiv(vol_a.variance, vol_b.variance)),
          correlation.by_y)

\* C23: whenever nvidia_beta_explained.py prints its 'MATH CHECK' for two
\* return arrays with non-zero variances, the beta it printed equals
\* correlation * (nvda_vol / spy_vol).
C23_MathCheckHolds ==
    (/\ call = "nvidia_beta_explained"
     /\ result.kind = "printed"
     /\ GtZero(result.nvda_vol.variance)
     /\ GtZero(result.spy_vol.variance)) =>
        /\ IsNum(result.beta)
        /\ result.nvda_vol.periods = result.spy_vol.periods
        /\ SignOf(result.beta) = result.correlation.sign
        /\ Times(result.beta, result.beta)
              = CorrelationTimesRatioSquared(result.correlation,
                                             result.nvda_vol, result.spy_vol)

----------------------------------------------------------------------------
(* C24 *)

\* C24: every DataFrame getBars returned to the loop of
\* simple_sp500_analysis.main has a number in 'close' on every row, also
\* when the download held close values that are not numbers.
C24_NoNaNCloseReturned ==
    (pc \in {"loop (simple)", "saved (simple)"} /\ position > 0
        /\ stock_data.kind = "DataFrame") =>
        \A t \in DOMAIN stock_data.close : stock_data.close[t] # NaNPrice

----------------------------------------------------------------------------
(* C25: in calculate_beta_fixed, calculate_correct_beta and                 *)
(* calculate_beta_corrected, a directional subset of more than 20          *)
(* observations whose market returns are all equal makes only that         *)
(* directional beta absent: the call still returns a result, its            *)
(* traditional_beta, data_points, positive_days and negative_days are those *)
(* of the aligned returns, the other directional beta is computed as usual, *)
(* and no field is the inf or nan of a division by zero                     *)

GuardedEstimators ==
    [calculate_beta_fixed |-> [min_points |-> MIN_POINTS_FIXED, absent |-> None],
     calculate_beta_corrected |-> [min_points |-> MIN_POINTS_CORRECTED, absent |-> None],
     calculate_correct_beta |-> [min_points |-> MIN_POINTS_SP500, absent |-> NaN]]

\* the call got past the length check and the check of the market variance
PastEarlyReturns ==
    /\ call \in DOMAIN GuardedEstimators
    /\ Len(frame.market) >= GuardedEstimators[call].min_points
    /\ ~EqZero(np_var(frame.market))

\* more than 20 observations, the market returns among them all equal
FlatSubset(market_sub) ==
    /\ Len(market_sub) > MIN_SUBSET_FIXED
    /\ \A i \in 1..Len(market_sub) : market_sub[i] = market_sub[1]

\* what a directional beta is when its subset's variance is not 0
UsualBeta(stock_sub, market_sub, absent) ==
    IF Len(market_sub) > MIN_SUBSET_FIXED
    THEN FloatDiv(np_cov(stock_sub, market_sub), np_var(market_sub))
    ELSE absent

----------------------------------------------------------------------------
(* C26: the batch loop of main() of generate_sp500_5year_yahoo_csv.py ends  *)
(* for every symbol list of length n >= 0 after exactly ceil(n / 50)        *)
(* batches; the batches visit every list index once, in increasing order,   *)
(* each batch has between 1 and 50 entries, and main() waits after every    *)
(* batch except the last                                                    *)

\* ceil(n / 50)
CeilOfBatches(n) == CHOOSE c \in 0..n : c * batch_size >= n /\ (c - 1) * batch_size < n

IsSymbolLine(l) == l.line = "symbol"
IsBatchHeader(l) == l.line = "Processing batch"

BatchLoopDone == pc \in {"saved (batches)", "returned (batches)"}

\* the entries visited so far are the first entries of the list, in order
VisitedInOrder ==
    LET visited == SelectSeq(printed, IsSymbolLine)
    IN  /\ Len(visited) <= Len(all_symbols)
        /\ \A k \in 1..Len(visited) :
              visited[k].index = k /\ visited[k].symbol = all_symbols[k]

\* the batches started so far are numbered from 1 and hold 1 to 50 entries
BatchesWellFormed ==
    LET headers == SelectSeq(printed, IsBatchHeader)
    IN  /\ Len(headers) <= CeilOfBatches(Len(all_symbols))
        /\ \A k \in 1..Len(headers) :
              headers[k].batch = k /\ headers[k].symbols \in 1..batch_size

\* a wait is what precedes every batch but the first, and nothing else
WaitsBetweenBatches ==
    \A j \in 1..Len(printed) :
        /\ (IsBatchHeader(printed[j]) /\ j > 1) => printed[j - 1] = WaitLine
        /\ printed[j] = WaitLine =>
              /\ j > 1 /\ IsSymbolLine(printed[j - 1])
              /\ j < Len(printed) => IsBatchHeader(printed[j + 1])
              /\ Len(SelectSeq(SubSeq(printed, 1, j), IsBatchHeader))
                    < CeilOfBatches(Len(all_symbols))

\* when the loop is over, every entry was visited in ceil(n / 50) batches and
\* no wait followed the last of them
AllVisitedAtEnd ==
    pc = "saved (batches)" =>
        /\ Len(SelectSeq(printed, IsSymbolLine)) = Len(all_symbols)
        /\ Len(SelectSeq(printed, IsBatchHeader)) = CeilOfBatches(Len(all_symbols))
        /\ printed # << >> => printed[Len(printed)] # WaitLine
        /\ Len(results) + Len(failed_stocks) = Len(all_symbols)

\* the steps main() still has to take: the market data, the start and the end
\* of every batch to come, the entries to come, the save
StepsLeft ==
    IF BatchLoopDone THEN 0
    ELSE LET started == frame.batch_num + (IF pc = "for symbol" THEN 1 ELSE 0)
         IN  (IF pc = "main (batches)" THEN 1 ELSE 0)
             + 2 * (CeilOfBatches(Len(all_symbols)) - started)
             + (IF pc = "for symbol" THEN 1 ELSE 0)
             + (Len(all_symbols) - position)
             + 1

\* one of the steps of main() can be taken: the condition of one of its
\* actions holds (what follows the condition in each action assigns only)
CanStep == AtMarketData \/ BatchToStart \/ SymbolToProcess \/ BatchThrough \/ BatchesThrough

\* the loop ends: it can go on until main() is through, and every step
\* leaves fewer steps to take
C26_BatchesCoverTheListAndEnd ==
    /\ [](VisitedInOrder /\ BatchesWellFormed /\ WaitsBetweenBatches /\ AllVisitedAtEnd)
    /\ [](StepsLeft >= 0 /\ (BatchLoopDone \/ CanStep))
    /\ [][StepsLeft' < StepsLeft]_vars

\* a list of 51 entries is through: two batches, the second of one entry,
\* one wait between them
C26_Witness ==
    /\ pc = "saved (batches)"
    /\ Len(all_symbols) = batch_size + 1
    /\ Len(SelectSeq(printed, IsBatchHeader)) = 2
    /\ printed[Len(printed) - 1].symbols = 1
    /\ Len(SelectSeq(printed, LAMBDA l : l = WaitLine)) = 1

----------------------------------------------------------------------------
(* C27: every result of calculate_beta_corrected that is not None is       *)
(* printed by test_multiple_periods as its one-line summary, also when      *)
(* positive_beta or negative_beta is None                                   *)

C27_EveryResultGetsItsLine ==
    (call = "calculate_beta_corrected" /\ Reported
        /\ printed.kind \in {"period line", "TypeError"}) =>
            printed.kind = "period line"

----------------------------------------------------------------------------
(* C28: in the 'MARKET REGIME BREAKDOWN' of monthly_beta_10year.main the    *)
(* printed number of negative months is the number of months whose market   *)
(* return is below 0 and the printed number of positive months the number    *)
(* above 0: a month with market return 0 is counted in neither              *)

C28_ZeroMonthsInNeitherCount ==
    printed.kind = "regime breakdown" =>
        LET market_monthly == Values(resample_to_monthly(market_data).table)
        IN  /\ printed.positive_months = Len(Positive(market_monthly, market_monthly))
            /\ printed.negative_months = Len(Negative(market_monthly, market_monthly))

----------------------------------------------------------------------------
(* C29: in verify_betas every verified stock is in exactly one quality     *)
(* class by its deviation d (EXCELLENT d <= 0.05, GOOD 0.05 < d <= 0.15,    *)
(* FAIR 0.15 < d <= 0.30, POOR d > 0.30); the Status strings and the        *)
(* summary counters use the same boundaries: the four counters add up to    *)
(* the number of results and the accuracy score is the share of stocks      *)
(* whose Status is EXCELLENT or GOOD                                        *)

\* the class of a deviation, in thousandths, as the claim states it
QualityClasses(d) ==
    {c \in {"EXCELLENT", "GOOD", "FAIR", "POOR"} :
        \/ c = "EXCELLENT" /\ d <= 50
        \/ c = "GOOD" /\ 50 < d /\ d <= 150
        \/ c = "FAIR" /\ 150 < d /\ d <= 300
        \/ c = "POOR" /\ d > 300}

WithStatus(statuses) == Len(SelectSeq(results, LAMBDA r : r.Status \in statuses))

C29_StatusAndCountersAgree ==
    /\ \A k \in 1..Len(results) :
          /\ results[k].Deviation = Abs(results[k].Our_Beta - results[k].Yahoo_Beta)
          /\ QualityClasses(results[k].Deviation) = {results[k].Status}
    /\ printed.kind = "summary" =>
          /\ printed.excellent = WithStatus({"EXCELLENT"})
          /\ printed.good = WithStatus({"GOOD"})
          /\ printed.fair = WithStatus({"FAIR"})
          /\ printed.poor = WithStatus({"POOR"})
          /\ printed.excellent + printed.good + printed.fair + printed.poor
                = Len(results)
          /\ printed.accuracy_score
                = Frac(WithStatus({"EXCELLENT", "GOOD"}) * 100, Len(results))

\* a summary over three stocks, one of them exactly on the excellent
\* boundary and one exactly on the good boundary
C29_Witness ==
    /\ printed.kind = "summary"
    /\ Len(results) = 3
    /\ \E j, k \in 1..Len(results) :
          /\ results[j].Deviation = 50 /\ results[j].Status = "EXCELLENT"
          /\ results[k].Deviation = 150 /\ results[k].Status = "GOOD"

----------------------------------------------------------------------------
(* C30: every value get_yahoo_beta_web returns is None or a beta in the    *)
(* reasonable range 0.01 <= beta <= 10.0, whichever path produced it, so    *)
(* verify_betas never compares against a Yahoo beta that is 0, negative or  *)
(* out of the range                                                         *)

C30_YahooBetaInReasonableRange ==
    /\ (call = "get_yahoo_beta_web" /\ result.kind = "float") =>
          (10 <= result.value /\ result.value <= 10000)
    /\ \A k \in 1..Len(results) :
          10 <= results[k].Yahoo_Beta /\ results[k].Yahoo_Beta <= 10000

====
